---- MODULE Spec2Model ----
(***************************************************************************)
(* A model of the synchronization engine of midterm-rental: the token      *)
(* manager (src/src/lib/guestyToken.ts), the listing synchronizer          *)
(* (src/src/services/listingSync.ts), the webhook router                   *)
(* (src/src/routes/listings.ts, second half) and the job queue             *)
(* (src/unnamed/part_001).                                                 *)
(*                                                                         *)
(* Conventions.  A nullable or optional value of the source is a sequence  *)
(* of length at most one: None is null/undefined, Some(v) a present v.     *)
(* Timestamps are integers in milliseconds, as Date.now() gives them.      *)
(* Vendor listing identifiers are strings in the source; the model numbers *)
(* them: 0 stands for the empty string "" and n >= 1 for a non-empty one.  *)
(***************************************************************************)
EXTENDS Integers, Sequences, FiniteSets, TLC

VARIABLES
    clock,      \* Date.now(), in ms
    ticks,      \* how often the clock has advanced (bounds the run)
    hosts,      \* the Host table: host id -> credential record
    listings,   \* the Listing table: the rows, in the order of their ids
    served,     \* how many listing records the vendor has served (bounds the run)
    proc,       \* the running calls: process -> its local state
    queue,      \* the Bull queue "sync-jobs": the jobs added, in order
    repeatable, \* the queue's repeatable-job registry
    boot,       \* process starts, and how many registered the recurring job
    hook,       \* the outcome of the last POST /webhooks/guesty, None at first
    calendarDays, \* the CalendarDay table: the rows, in the order of their ids
    work        \* the jobs the workers have taken: running, failed, completed

vars == <<clock, ticks, hosts, listings, served, proc, queue, repeatable, boot, hook,
          calendarDays, work>>

----------------------------------------------------------------------------
(* Optional values and the operators of the source on them. *)

None == <<>>
Some(v) == <<v>>

\* a ?? b
Coalesce(a, b) == IF a # None THEN a ELSE b

\* JavaScript truthiness of an optional string: neither null/undefined nor "".
TruthyStr(o) == o # None /\ o[1] # ""

----------------------------------------------------------------------------
(* Bounds of the model. *)

MaxTicks == 2

\* The amounts, in ms, by which the clock advances in one step.
TickSteps == {999, 1000}

Procs == {"p1", "p2"}

\* The hosts registered in the Host table, and the host ids a request may
\* name: the last one is in no record.
HostIds == {1, 2}
CallHostIds == {1, 2, 3}

\* The queue holds at most this many waiting jobs.
MaxQueue == 2

\* The vendor serves at most MaxServed listing records during a run, and at
\* most MaxPageLen of them in one page of a small collection.
MaxServed == 2
MaxPageLen == 2

\* A large collection is paged through up to page MaxBulkPages.
MaxBulkPages == 3

\* The process is started at most MaxStarts times.
MaxStarts == 2

\* A run of the workers sees at most MaxJobs jobs added.
MaxJobs == 2

----------------------------------------------------------------------------
(* The credential store and the vendor's token endpoint. *)

TOKEN_EXPIRY_BUFFER_MS == 5 * 60 * 1000

\* GUESTY_CLIENT_ID and GUESTY_CLIENT_SECRET are set in the deployment.
ClientCredentialsSet == TRUE

\* A host as POST /auth/register creates it: no vendor credentials yet.
NewHost ==
    [ guestyAccountId    |-> None,
      guestyAccessToken  |-> None,
      guestyRefreshToken |-> None,
      guestyTokenType    |-> None,
      guestyScope        |-> None,
      guestyExpiresAt    |-> None ]

\* The vendor's answers to a token request (GuestyTokenResponse and
\* GuestyOAuthTokenResponse): ok is the HTTP status being 2xx.
TokenResponse(ok, at, rt, tt, sc, ei, acc) ==
    [ ok            |-> ok,
      access_token  |-> at,
      refresh_token |-> rt,
      token_type    |-> tt,
      scope         |-> sc,
      expires_in    |-> ei,
      account_id    |-> acc,
      accountId     |-> None ]

TokenResponses ==
    { TokenResponse(FALSE, None, None, None, None, None, None),
      TokenResponse(TRUE, None, Some("R1"), None, None, Some(301), None),
      TokenResponse(TRUE, Some(""), None, None, None, Some(301), None),
      TokenResponse(TRUE, Some("A1"), Some("R1"), Some("Bearer"), Some("read"),
                    Some(301), Some("acct")),
      TokenResponse(TRUE, Some("A2"), None, None, None, None, Some("acct")),
      TokenResponse(TRUE, Some("A3"), None, None, None, Some(3600), None) }

TokenStillValid_AtBuffer(host, now) ==
    /\ TruthyStr(host.guestyAccessToken)
    /\ host.guestyExpiresAt # None
    /\ host.guestyExpiresAt[1] - now >= TOKEN_EXPIRY_BUFFER_MS

\* guestyToken.ts lines 25-29: the stored token is still good.
TokenStillValid(host, now) ==
    /\ TruthyStr(host.guestyAccessToken)
    /\ host.guestyExpiresAt # None
    /\ host.guestyExpiresAt[1] - now > TOKEN_EXPIRY_BUFFER_MS

\* lines 68-71 (and part_000 lines 240-243): the expiry of a token response.
ExpiresAt(data, now) ==
    IF data.expires_in # None THEN Some(now + data.expires_in[1] * 1000) ELSE None

RefreshUpdate_ExpiryFromLoad(host, data, now) ==
    [ guestyAccessToken  |-> data.access_token,
      guestyRefreshToken |-> Coalesce(data.refresh_token, host.guestyRefreshToken),
      guestyTokenType    |-> Coalesce(data.token_type, host.guestyTokenType),
      guestyScope        |-> Coalesce(data.scope, host.guestyScope),
      guestyExpiresAt    |-> Coalesce(host.guestyExpiresAt, ExpiresAt(data, now)) ]

\* lines 75-81: the fields prisma.host.update writes after a refresh; host is
\* the record as it was loaded at the start of the call.
RefreshUpdate(host, data, now) ==
    [ guestyAccessToken  |-> data.access_token,
      guestyRefreshToken |-> Coalesce(data.refresh_token, host.guestyRefreshToken),
      guestyTokenType    |-> Coalesce(data.token_type, host.guestyTokenType),
      guestyScope        |-> Coalesce(data.scope, host.guestyScope),
      guestyExpiresAt    |-> Coalesce(ExpiresAt(data, now), host.guestyExpiresAt) ]

\* prisma.host.update: the named fields replaced, the others kept.
ApplyUpdate(row, data) ==
    [ f \in DOMAIN row |-> IF f \in DOMAIN data THEN data[f] ELSE row[f] ]

----------------------------------------------------------------------------
(* Vendor listings and their mapping, listingSync.ts lines 8-179. *)

DEFAULT_PAGE_SIZE == 50

\* GuestyAddress, GuestyLocation and GuestyListing with every field absent.
EmptyAddress ==
    [ full |-> None, street |-> None, line1 |-> None, line2 |-> None,
      address1 |-> None, address2 |-> None, apt |-> None, city |-> None,
      state |-> None, province |-> None, zip |-> None, postalCode |-> None,
      country |-> None ]

EmptyLocation ==
    [ lat |-> None, lng |-> None, latitude |-> None, longitude |-> None ]

EmptyListing ==
    [ _id |-> None, id |-> None, title |-> None, name |-> None,
      description |-> None, propertyType |-> None,
      propertyTypeCategory |-> None, bedrooms |-> None, bathrooms |-> None,
      beds |-> None, accommodates |-> None, maxGuests |-> None,
      address |-> None, location |-> None, geo |-> None, amenities |-> None,
      pictures |-> None, images |-> None, basePrice |-> None,
      defaultDailyPrice |-> None, dailyRate |-> None ]

\* Vendor payloads: the canonical field names, the historical ones, a bare
\* record, a record without identifier, and one whose _id is "".
RawCanonical ==
    [ EmptyListing EXCEPT
        !._id = Some(1), !.id = Some(2), !.title = Some("Loft"),
        !.name = Some("Old loft"), !.description = Some("Sunny"),
        !.propertyType = Some("apartment"), !.bedrooms = Some(2),
        !.bathrooms = Some(1), !.beds = Some(3), !.maxGuests = Some(4),
        !.accommodates = Some(5),
        !.address = Some([EmptyAddress EXCEPT
            !.full = Some("1 Main St, Springfield"), !.street = Some("1 Main St"),
            !.apt = Some("4B"), !.city = Some("Springfield"),
            !.state = Some("IL"), !.zip = Some("62701"), !.country = Some("US")]),
        !.location = Some([EmptyLocation EXCEPT !.lat = Some(39), !.lng = Some(-89)]),
        !.amenities = Some(<<"wifi">>), !.pictures = Some(<<"p1.jpg">>),
        !.basePrice = Some(120), !.defaultDailyPrice = Some(110) ]

RawHistorical ==
    [ EmptyListing EXCEPT
        !.id = Some(1), !.name = Some("Loft, renamed"),
        !.propertyTypeCategory = Some("flat"), !.accommodates = Some(6),
        !.address = Some([EmptyAddress EXCEPT
            !.line1 = Some("2 Side St"), !.address2 = Some("rear"),
            !.province = Some("ON"), !.postalCode = Some("K1A")]),
        !.geo = Some([EmptyLocation EXCEPT !.latitude = Some(45), !.longitude = Some(-75)]),
        !.images = Some(<<"i1.jpg">>), !.dailyRate = Some(95) ]

RawBare ==
    [ EmptyListing EXCEPT
        !._id = Some(2),
        !.address = Some([EmptyAddress EXCEPT !.full = Some("3 Hill Rd"),
                                              !.address1 = Some("3 Hill Rd"),
                                              !.line2 = Some("flat 2")]),
        !.defaultDailyPrice = Some(80) ]

RawNoId == [ EmptyListing EXCEPT !.title = Some("No identifier") ]

RawEmptyId == [ EmptyListing EXCEPT !._id = Some(0), !.title = Some("Empty identifier") ]

\* A record whose price is negative.
RawNegative ==
    [ EmptyListing EXCEPT !._id = Some(2), !.title = Some("Refund"),
                          !.defaultDailyPrice = Some(-5), !.dailyRate = Some(70) ]

\* JavaScript truthiness of an optional identifier: 0 stands for "".
TruthyId(o) == o # None /\ o[1] # 0

\* lines 69-71
extractGuestyId(listing) == Coalesce(listing._id, listing.id)

\* new Prisma.Decimal(n): the decimal with the value of the number n.
Decimal(n) == n

\* lines 96-132 and 139-175: the attributes create and update share.
MappedAttributes(guesty) ==
    LET address == IF guesty.address # None THEN guesty.address[1] ELSE EmptyAddress
        loc     == IF guesty.location # None THEN guesty.location[1]
                   ELSE IF guesty.geo # None THEN guesty.geo[1] ELSE EmptyLocation
        basePriceNumber ==
            Coalesce(guesty.basePrice,
              Coalesce(guesty.defaultDailyPrice,
                Coalesce(guesty.dailyRate, Some(0))))[1]
    IN  [ title        |-> Coalesce(guesty.title, Coalesce(guesty.name,
                             Coalesce(address.full, Some("Untitled listing"))))[1],
          description  |-> guesty.description,
          propertyType |-> Coalesce(guesty.propertyType, guesty.propertyTypeCategory),
          bedrooms     |-> guesty.bedrooms,
          bathrooms    |-> guesty.bathrooms,
          beds         |-> guesty.beds,
          maxGuests    |-> Coalesce(guesty.maxGuests, guesty.accommodates),
          addressLine1 |-> Coalesce(address.street,
                             Coalesce(address.line1, address.address1)),
          addressLine2 |-> Coalesce(address.apt,
                             Coalesce(address.line2, address.address2)),
          city         |-> address.city,
          state        |-> Coalesce(address.state, address.province),
          postalCode   |-> Coalesce(address.zip, address.postalCode),
          country      |-> address.country,
          latitude     |-> Coalesce(loc.lat, loc.latitude),
          longitude    |-> Coalesce(loc.lng, loc.longitude),
          photos       |-> Coalesce(guesty.pictures, Coalesce(guesty.images, Some(<<>>)))[1],
          amenities    |-> Coalesce(guesty.amenities, Some(<<>>))[1],
          basePrice    |-> Decimal(basePriceNumber) ]

mapGuestyListingToPrismaData_UpdateKeepsPrice(guesty, hostId) ==
    [ create |-> [ guestyId |-> Coalesce(extractGuestyId(guesty), Some(0))[1],
                   hostId   |-> hostId,
                   attrs    |-> MappedAttributes(guesty) ],
      update |-> [ attrs |-> [MappedAttributes(guesty) EXCEPT
                                 !.basePrice = Decimal(0)] ] ]

mapGuestyListingToPrismaData_UpdateConnectsHost(guesty, hostId) ==
    [ create |-> [ guestyId |-> Coalesce(extractGuestyId(guesty), Some(0))[1],
                   hostId   |-> hostId,
                   attrs    |-> MappedAttributes(guesty) ],
      update |-> [ hostId |-> hostId, attrs |-> MappedAttributes(guesty) ] ]

\* lines 73-179
mapGuestyListingToPrismaData(guesty, hostId) ==
    [ create |-> [ guestyId |-> Coalesce(extractGuestyId(guesty), Some(0))[1],
                   hostId   |-> hostId,
                   attrs    |-> MappedAttributes(guesty) ],
      update |-> [ attrs |-> MappedAttributes(guesty) ] ]

----------------------------------------------------------------------------
(* The Listing table.  A row is [id, guestyId, hostId, attrs]; the row id is
   its position, rows are never deleted; guestyId is a unique column. *)

HasGuestyId(table, g) == \E i \in DOMAIN table : table[i].guestyId = g

RowOf(table, g) == CHOOSE i \in DOMAIN table : table[i].guestyId = g

\* INSERT of the create data.
InsertListing(table, create) ==
    Append(table, [ id |-> Len(table) + 1, guestyId |-> create.guestyId,
                    hostId |-> create.hostId, attrs |-> create.attrs ])

UpdateListing_KeepsDescription(table, g, update) ==
    [ i \in DOMAIN table |->
        IF table[i].guestyId = g
        THEN [table[i] EXCEPT !.attrs =
                 [update.attrs EXCEPT !.description = table[i].attrs.description]]
        ELSE table[i] ]

\* UPDATE ... WHERE guestyId = g of the update data: the columns the data
\* names are replaced, the others kept.
UpdateListing(table, g, update) ==
    [ i \in DOMAIN table |->
        IF table[i].guestyId = g
        THEN [ f \in DOMAIN table[i] |->
                 IF f \in DOMAIN update THEN update[f] ELSE table[i][f] ]
        ELSE table[i] ]

----------------------------------------------------------------------------
(* Dates and vendor days, calendarSync.ts lines 6-45 and 98-122.  A Date of
   the calendar synchronizer is modelled by its whole hours since the epoch:
   the code only ever takes the UTC day of one. *)

\* new Date(): the clock, in hours.
NowDate == clock \div 3600000

\* getUTCFullYear(), getUTCMonth() + 1 and getUTCDate() of the day z (days
\* since the epoch), in the proleptic Gregorian calendar.
CivilFromDays(z) ==
    LET zz  == z + 719468
        era == zz \div 146097
        doe == zz - era * 146097
        yoe == (doe - doe \div 1460 + doe \div 36524 - doe \div 146096) \div 365
        doy == doe - (365 * yoe + yoe \div 4 - yoe \div 100)
        mp  == (5 * doy + 2) \div 153
        m   == IF mp < 10 THEN mp + 3 ELSE mp - 9
    IN  [ y |-> yoe + era * 400 + (IF m <= 2 THEN 1 ELSE 0),
          m |-> m,
          d |-> doy - (153 * mp + 2) \div 5 + 1 ]

\* Date.UTC(y, m - 1, d) in days, for a month m in 1..12 and any day d.
DaysFromCivil(y, m, d) ==
    LET yy  == IF m <= 2 THEN y - 1 ELSE y
        era == yy \div 400
        yoe == yy - era * 400
        doy == (153 * (IF m > 2 THEN m - 3 ELSE m + 9) + 2) \div 5 + d - 1
        doe == yoe * 365 + yoe \div 4 - yoe \div 100 + doy
    IN  era * 146097 + doe - 719468

startOfDayUtc_Identity(d) == d

\* lines 37-39
startOfDayUtc(d) ==
    LET c == CivilFromDays(d \div 24) IN DaysFromCivil(c.y, c.m, c.d) * 24

\* lines 41-45: setUTCMonth keeps the day of the month and the time, and a
\* day the target month does not have runs over into the next one.
addMonths(d, months) ==
    LET c     == CivilFromDays(d \div 24)
        total == (c.m - 1) + months
    IN  (DaysFromCivil(c.y + (total \div 12), (total % 12) + 1, 1) + c.d - 1) * 24
          + (d % 24)

\* The text of a date as the vendor sends it: "" (kind "empty"), a date or
\* timestamp naming hour `hour` of day `day` at `offset` hours east of UTC
\* (kind "iso"; a bare date is hour 0 at offset 0), or text that is no date.
DateText(kind, day, hour, offset) ==
    [ kind |-> kind, day |-> day, hour |-> hour, offset |-> offset ]

\* new Date(text): None stands for an Invalid Date.
ParseDate(text) ==
    IF text.kind = "iso" THEN Some(text.day * 24 + text.hour - text.offset)
    ELSE None

\* line 99: raw.date is neither absent nor "".
TruthyDate(o) == o # None /\ o[1].kind # "empty"

\* GuestyAvailabilityDay with every field absent.
EmptyDay ==
    [ date |-> None, available |-> None, price |-> None, nightlyPrice |-> None,
      basePrice |-> None, defaultDailyPrice |-> None, minimumStay |-> None,
      minNights |-> None, minStay |-> None ]

\* Number(decimal): the number with the value of the decimal.
NumberOf(dec) == dec

DayPrice_SkipsZero(raw, listing) ==
    LET pos(o) == IF o # None /\ o[1] # 0 THEN o ELSE None
        basePriceNumber ==
            Coalesce(pos(raw.price), Coalesce(pos(raw.nightlyPrice),
              Coalesce(pos(raw.basePrice), Coalesce(pos(raw.defaultDailyPrice),
                Some(NumberOf(listing.attrs.basePrice))))))[1]
    IN  Decimal(basePriceNumber)

\* lines 107-116; the numbers of the model are all finite.
DayPrice(raw, listing) ==
    LET basePriceNumber ==
            Coalesce(raw.price, Coalesce(raw.nightlyPrice,
              Coalesce(raw.basePrice, Coalesce(raw.defaultDailyPrice,
                Some(NumberOf(listing.attrs.basePrice))))))[1]
    IN  Decimal(basePriceNumber)

\* lines 103-143: the arguments of prisma.calendarDay.upsert for a day whose
\* date has parsed.
DayUpsertArgs(raw, listing) ==
    LET dateOnly  == startOfDayUtc(ParseDate(raw.date[1])[1])
        available == Coalesce(raw.available, Some(TRUE))[1]
        minStay   == Coalesce(raw.minimumStay, Coalesce(raw.minNights,
                       Coalesce(raw.minStay, Some(1))))[1]
    IN  [ where  |-> [ listingId |-> listing.id, date |-> dateOnly ],
          create |-> [ listingId |-> listing.id, date |-> dateOnly,
                       available |-> available, price |-> DayPrice(raw, listing),
                       minStay |-> minStay ],
          update |-> [ available |-> available, price |-> DayPrice(raw, listing),
                       minStay |-> minStay ] ]

----------------------------------------------------------------------------
(* The CalendarDay table.  A row is [id, listingId, date, available, price,
   minStay]; (listingId, date) is a unique pair of columns. *)

HasDay(table, key) ==
    \E i \in DOMAIN table :
        table[i].listingId = key.listingId /\ table[i].date = key.date

DayRowOf(table, key) ==
    CHOOSE i \in DOMAIN table :
        table[i].listingId = key.listingId /\ table[i].date = key.date

InsertDay(table, create) ==
    Append(table, [ id |-> Len(table) + 1, listingId |-> create.listingId,
                    date |-> create.date, available |-> create.available,
                    price |-> create.price, minStay |-> create.minStay ])

UpdateDay(table, key, update) ==
    [ i \in DOMAIN table |->
        IF table[i].listingId = key.listingId /\ table[i].date = key.date
        THEN [table[i] EXCEPT !.available = update.available,
                              !.price = update.price,
                              !.minStay = update.minStay]
        ELSE table[i] ]

----------------------------------------------------------------------------
(* The jobs the workers of the queue have taken (part_001 lines 31-62): the
   job each worker runs, if any, and the jobs that have failed and completed,
   in the order in which they did. *)

NoWork ==
    [ added     |-> 0,
      active    |-> [p \in Procs |-> None],
      failed    |-> <<>>,
      completed |-> <<>> ]

----------------------------------------------------------------------------
(* The local state of a call. *)

IdleProc ==
    [ pc      |-> "idle",
      op      |-> "none",
      hostId  |-> 0,
      \* getGuestyAccessToken
      host    |-> None,     \* the Host record loaded at line 15
      resp    |-> None,     \* the vendor's answer to the refresh grant
      respAt  |-> 0,        \* Date.now() at line 70, when it was processed
      data    |-> None,     \* the update computed at lines 68-81
      token   |-> None,     \* the access token returned
      err     |-> "",       \* the error thrown, "" when none
      grants  |-> 0,        \* refresh grants posted by this call
      writes  |-> 0,        \* credential-store writes by this call
      \* syncAllListingsForHost and syncListingByGuestyId
      guestyListingId |-> 0,    \* the identifier syncListingByGuestyId is given
      page            |-> 0,
      pages           |-> None, \* data.pages of the page at hand
      rawListings     |-> <<>>,
      idx             |-> 0,    \* the position of the for loop in rawListings
      syncedListings  |-> <<>>,
      upsert          |-> None, \* the arguments of the upsert under way
      found           |-> FALSE,\* whether the upsert found the row
      listing         |-> None, \* what syncListingByGuestyId returns
      requests        |-> <<>>, \* the vendor requests issued: page numbers, or
                                \* the identifier of a single listing
      received        |-> <<>>, \* the vendor payloads received, in order
      upserts         |-> 0,    \* upserts completed by this call
      prev            |-> None, \* the syncListingByGuestyId call this process
                                \* made just before, if that is what it did
      \* syncCalendarForListing
      tokenCalls      |-> 0,    \* calls of getGuestyAccessToken by this call
      listingId       |-> 0,    \* the listing syncCalendarForListing is given
      calListing      |-> None, \* the Listing row loaded at line 70
      rawDays         |-> <<>>,
      dayIdx          |-> 0,    \* the position of the for loop in rawDays
      syncedDays      |-> <<>>,
      dayUpsert       |-> None, \* the arguments of the upsert under way
      dayFound        |-> FALSE,\* whether the upsert found the row
      dayWrites       |-> 0,    \* CalendarDay rows written by this call
      \* the sync-all-hosts handler
      fanHosts        |-> <<>>, \* the hosts loaded at line 51, in their order
      fanIdx          |-> 0,    \* the position of the for loop in fanHosts
      fanAdded        |-> <<>> ]\* the jobs added by this execution, in order

SetProc(p, r) == proc' = [proc EXCEPT ![p] = r]

Fail(p, e) == SetProc(p, [proc[p] EXCEPT !.pc = "failed", !.err = e])

\* What a finished call leaves for the next one to be compared with: its
\* arguments, what the vendor sent, its outcome and the table after it.
Summary(r, table) ==
    [ op |-> r.op, hostId |-> r.hostId, guestyListingId |-> r.guestyListingId,
      received |-> r.received, listing |-> r.listing, err |-> r.err,
      pc |-> r.pc, table |-> table ]

\* The locals of a call as it starts.
StartProc(p, op, h) ==
    [ IdleProc EXCEPT !.pc = "token", !.op = op, !.hostId = h, !.tokenCalls = 1,
                      !.prev = IF op = "syncOne" /\ proc[p].op = "syncOne"
                               THEN Some(Summary(proc[p], listings))
                               ELSE None ]

\* getGuestyAccessToken returns token to the call r: the caller runs on to its
\* first vendor request (listingSync.ts lines 184-195 and 246-249,
\* calendarSync.ts lines 75-91).
Returned(r, token) ==
    CASE r.op = "syncAll" ->
           [r EXCEPT !.pc = "listPage", !.token = token, !.page = 1,
                     !.requests = <<1>>]
      [] r.op = "syncOne" ->
           [r EXCEPT !.pc = "getListing", !.token = token,
                     !.requests = <<r.guestyListingId>>]
      [] r.op = "syncCalendar" ->
           LET start == startOfDayUtc(NowDate)
               end   == startOfDayUtc(addMonths(start, 6))
           IN  [r EXCEPT !.pc = "getAvailability", !.token = token,
                         !.requests = << [ listingId |-> r.calListing[1].guestyId,
                                           startDate |-> start,
                                           endDate   |-> end ] >>]
      [] OTHER -> [r EXCEPT !.pc = "done", !.token = token]

----------------------------------------------------------------------------
(* getGuestyAccessToken, guestyToken.ts lines 14-89. *)

\* A caller invokes getGuestyAccessToken(hostId).
CallGetToken(p, h) ==
    /\ proc[p].pc \in {"idle", "done", "failed"}
    /\ SetProc(p, StartProc(p, "getToken", h))
    /\ UNCHANGED <<clock, ticks, hosts, listings, served, queue, repeatable, boot, hook, calendarDays, work>>

\* lines 15-56: load the host, return the stored token or go on to refresh.
TokenLoad(p) ==
    /\ proc[p].pc = "token"
    /\ LET h == proc[p].hostId IN
       IF h \notin DOMAIN hosts
       THEN Fail(p, "NotFound")
       ELSE IF TokenStillValid(hosts[h], clock)
       THEN SetProc(p, Returned(proc[p], hosts[h].guestyAccessToken))
       ELSE IF ~TruthyStr(hosts[h].guestyRefreshToken)
       THEN Fail(p, "MissingRefreshToken")
       ELSE IF ~ClientCredentialsSet
       THEN Fail(p, "NotConfigured")
       ELSE SetProc(p, [proc[p] EXCEPT !.pc = "tokenPost",
                                       !.host = Some(hosts[h]),
                                       !.grants = @ + 1])
    /\ UNCHANGED <<clock, ticks, hosts, listings, served, queue, repeatable, boot, hook, calendarDays, work>>

TokenPost_ClearsTokenOnFailure(p) ==
    /\ proc[p].pc = "tokenPost"
    /\ \E resp \in TokenResponses :
         IF ~resp.ok \/ ~TruthyStr(resp.access_token)
         THEN /\ SetProc(p, [proc[p] EXCEPT !.pc = "failed",
                                            !.err = "VendorAuthError",
                                            !.resp = Some(resp)])
              /\ hosts' = [hosts EXCEPT ![proc[p].hostId].guestyAccessToken = None]
         ELSE /\ SetProc(p, [proc[p] EXCEPT
                  !.pc = "tokenWrite",
                  !.resp = Some(resp),
                  !.respAt = clock,
                  !.data = Some(RefreshUpdate(proc[p].host[1], resp, clock))])
              /\ UNCHANGED hosts
    /\ UNCHANGED <<clock, ticks, listings, served, queue, repeatable, boot, hook, calendarDays, work>>

\* lines 58-82: the vendor answers the refresh grant; the update is computed
\* and handed to prisma.host.update.  A rejected grant (axios throws) and an
\* answer without access token (line 64) end the call.
TokenPost(p) ==
    /\ proc[p].pc = "tokenPost"
    /\ \E resp \in TokenResponses :
         IF ~resp.ok \/ ~TruthyStr(resp.access_token)
         THEN SetProc(p, [proc[p] EXCEPT !.pc = "failed",
                                         !.err = "VendorAuthError",
                                         !.resp = Some(resp)])
         ELSE SetProc(p, [proc[p] EXCEPT
                  !.pc = "tokenWrite",
                  !.resp = Some(resp),
                  !.respAt = clock,
                  !.data = Some(RefreshUpdate(proc[p].host[1], resp, clock))])
    /\ UNCHANGED <<clock, ticks, hosts, listings, served, queue, repeatable, boot, hook, calendarDays, work>>

TokenWrite_KeepsStoredRefreshToken(p) ==
    /\ proc[p].pc = "tokenWrite"
    /\ LET h == proc[p].hostId
           updatedHost == [ ApplyUpdate(hosts[h], proc[p].data[1])
                              EXCEPT !.guestyRefreshToken = hosts[h].guestyRefreshToken ]
       IN  /\ hosts' = [hosts EXCEPT ![h] = updatedHost]
           /\ IF ~TruthyStr(updatedHost.guestyAccessToken)
              THEN SetProc(p, [proc[p] EXCEPT !.pc = "failed",
                                              !.err = "PersistenceError",
                                              !.writes = @ + 1])
              ELSE SetProc(p, Returned([proc[p] EXCEPT !.writes = @ + 1],
                                       updatedHost.guestyAccessToken))
    /\ UNCHANGED <<clock, ticks, listings, served, queue, repeatable, boot, hook, calendarDays, work>>

TokenWrite_AllHosts(p) ==
    /\ proc[p].pc = "tokenWrite"
    /\ LET h == proc[p].hostId
           updatedHost == ApplyUpdate(hosts[h], proc[p].data[1])
       IN  /\ hosts' = [g \in DOMAIN hosts |-> ApplyUpdate(hosts[g], proc[p].data[1])]
           /\ IF ~TruthyStr(updatedHost.guestyAccessToken)
              THEN SetProc(p, [proc[p] EXCEPT !.pc = "failed",
                                              !.err = "PersistenceError",
                                              !.writes = @ + 1])
              ELSE SetProc(p, Returned([proc[p] EXCEPT !.writes = @ + 1],
                                       updatedHost.guestyAccessToken))
    /\ UNCHANGED <<clock, ticks, listings, served, queue, repeatable, boot, hook, calendarDays, work>>

\* lines 73-88: the update reaches the store; the stored token is returned.
TokenWrite(p) ==
    /\ proc[p].pc = "tokenWrite"
    /\ LET h == proc[p].hostId
           updatedHost == ApplyUpdate(hosts[h], proc[p].data[1])
       IN  /\ hosts' = [hosts EXCEPT ![h] = updatedHost]
           /\ IF ~TruthyStr(updatedHost.guestyAccessToken)
              THEN SetProc(p, [proc[p] EXCEPT !.pc = "failed",
                                              !.err = "PersistenceError",
                                              !.writes = @ + 1])
              ELSE SetProc(p, Returned([proc[p] EXCEPT !.writes = @ + 1],
                                       updatedHost.guestyAccessToken))
    /\ UNCHANGED <<clock, ticks, listings, served, queue, repeatable, boot, hook, calendarDays, work>>

----------------------------------------------------------------------------
(* The upsert, prisma.listing.upsert of listingSync.ts lines 219-223 and
   263-267.  Its create carries nested writes (host.connect), so the client
   first looks the row up and then inserts or updates; the unique column
   makes an insert fail when the row has appeared in between. *)

UniqueViolation_Unchecked(table, g) == FALSE

UniqueViolation(table, g) == HasGuestyId(table, g)

\* What line 258 makes the upsert key of a single-listing sync.
SingleListingKey_FromRequest(data, guestyListingId) == guestyListingId

SingleListingKey(data, guestyListingId) ==
    Coalesce(extractGuestyId(data), Some(guestyListingId))[1]

\* The first position from `from` on whose record has an identifier (line
\* 213 skips the others), 0 when there is none.
NextWithId_NullOnly(rawListings, from) ==
    LET withId == { j \in from..Len(rawListings) :
                      extractGuestyId(rawListings[j]) # None }
    IN  IF withId = {} THEN 0 ELSE CHOOSE j \in withId : \A k \in withId : j <= k

NextWithId(rawListings, from) ==
    LET withId == { j \in from..Len(rawListings) :
                      TruthyId(extractGuestyId(rawListings[j])) }
    IN  IF withId = {} THEN 0 ELSE CHOOSE j \in withId : \A k \in withId : j <= k

PageEnd_StopAtFull(r) ==
    LET reported == r.pages # None /\ r.pages[1] # 0 IN
    IF \/ reported /\ r.page >= r.pages[1]
       \/ ~reported /\ Len(r.rawListings) <= DEFAULT_PAGE_SIZE
    THEN [r EXCEPT !.pc = "done"]
    ELSE [r EXCEPT !.pc = "listPage", !.page = @ + 1,
                   !.requests = Append(@, r.page + 1)]

PageEnd_StopWhenShort(r) ==
    IF \/ r.pages # None /\ r.pages[1] # 0 /\ r.page >= r.pages[1]
       \/ Len(r.rawListings) < DEFAULT_PAGE_SIZE
    THEN [r EXCEPT !.pc = "done"]
    ELSE [r EXCEPT !.pc = "listPage", !.page = @ + 1,
                   !.requests = Append(@, r.page + 1)]

PageEnd_PageCap(r) ==
    LET reported == r.pages # None /\ r.pages[1] # 0 IN
    IF \/ reported /\ r.page >= r.pages[1]
       \/ ~reported /\ Len(r.rawListings) < DEFAULT_PAGE_SIZE
       \/ r.page >= 2
    THEN [r EXCEPT !.pc = "done"]
    ELSE [r EXCEPT !.pc = "listPage", !.page = @ + 1,
                   !.requests = Append(@, r.page + 1)]

\* lines 228-236: past the last record of a page, stop or ask for the next.
PageEnd(r) ==
    LET reported == r.pages # None /\ r.pages[1] # 0 IN
    IF \/ reported /\ r.page >= r.pages[1]
       \/ ~reported /\ Len(r.rawListings) < DEFAULT_PAGE_SIZE
    THEN [r EXCEPT !.pc = "done"]
    ELSE [r EXCEPT !.pc = "listPage", !.page = @ + 1,
                   !.requests = Append(@, r.page + 1)]

\* lines 211-237: the for loop from position `from` up to its next await.
RunLoop(r, from) ==
    LET j == NextWithId(r.rawListings, from) IN
    IF j = 0 THEN PageEnd([r EXCEPT !.idx = Len(r.rawListings) + 1])
    ELSE LET raw == r.rawListings[j]
             m   == mapGuestyListingToPrismaData(raw, r.hostId)
         IN  [r EXCEPT !.idx = j, !.pc = "upsertFind",
                       !.upsert = Some([ where  |-> extractGuestyId(raw)[1],
                                         create |-> m.create,
                                         update |-> m.update ])]

\* The vendor's answers to GET /listings (GuestyListResponse).
ListResponse(ok, results, data, pages) ==
    [ ok |-> ok, results |-> results, data |-> data, pages |-> pages ]

\* A caller invokes syncAllListingsForHost(hostId).
CallSyncAll(p, h) ==
    /\ proc[p].pc \in {"idle", "done", "failed"}
    /\ SetProc(p, StartProc(p, "syncAll", h))
    /\ UNCHANGED <<clock, ticks, hosts, listings, served, queue, repeatable, boot, hook, calendarDays, work>>

ListPage_RetriesPage(p, resps) ==
    /\ proc[p].pc = "listPage"
    /\ \E resp \in resps :
         IF ~resp.ok
         THEN /\ SetProc(p, [proc[p] EXCEPT !.requests = Append(@, proc[p].page)])
              /\ UNCHANGED served
         ELSE LET rawListings ==
                      Coalesce(resp.results, Coalesce(resp.data, Some(<<>>)))[1]
                  r == [proc[p] EXCEPT !.rawListings = rawListings,
                                       !.pages = resp.pages,
                                       !.received = Append(@, rawListings)]
              IN  /\ served' = served + Len(rawListings)
                  /\ IF Len(rawListings) = 0
                     THEN SetProc(p, [r EXCEPT !.pc = "done"])
                     ELSE SetProc(p, RunLoop(r, 1))
    /\ UNCHANGED <<clock, ticks, hosts, listings, queue, repeatable, boot, hook, calendarDays, work>>

\* lines 195-217: the vendor answers the request for a page, one of resps.
\* A request the vendor fails makes axios.get throw, which ends the call.
ListPage(p, resps) ==
    /\ proc[p].pc = "listPage"
    /\ \E resp \in resps :
         IF ~resp.ok
         THEN Fail(p, "VendorRequestError") /\ UNCHANGED served
         ELSE LET rawListings ==
                      Coalesce(resp.results, Coalesce(resp.data, Some(<<>>)))[1]
                  r == [proc[p] EXCEPT !.rawListings = rawListings,
                                       !.pages = resp.pages,
                                       !.received = Append(@, rawListings)]
              IN  /\ served' = served + Len(rawListings)
                  /\ IF Len(rawListings) = 0
                     THEN SetProc(p, [r EXCEPT !.pc = "done"])
                     ELSE SetProc(p, RunLoop(r, 1))
    /\ UNCHANGED <<clock, ticks, hosts, listings, queue, repeatable, boot, hook, calendarDays, work>>

\* A caller invokes syncListingByGuestyId(hostId, guestyListingId).
CallSyncOne(p, h, g) ==
    /\ proc[p].pc \in {"idle", "done", "failed"}
    /\ SetProc(p, [StartProc(p, "syncOne", h) EXCEPT !.guestyListingId = g])
    /\ UNCHANGED <<clock, ticks, hosts, listings, served, queue, repeatable, boot, hook, calendarDays, work>>

\* lines 249-263: the vendor answers the request for one listing: an error,
\* or one of raws.
GetListing(p, raws) ==
    /\ proc[p].pc = "getListing"
    /\ \/ Fail(p, "VendorRequestError") /\ UNCHANGED served
       \/ \E data \in raws :
            LET guestyId == SingleListingKey(data, proc[p].guestyListingId)
                m == mapGuestyListingToPrismaData(data, proc[p].hostId)
            IN  /\ served < MaxServed
                /\ served' = served + 1
                /\ SetProc(p, [proc[p] EXCEPT
                       !.pc = "upsertFind",
                       !.received = Append(@, data),
                       !.upsert = Some([ where  |-> guestyId,
                                         create |-> [m.create EXCEPT !.guestyId = guestyId],
                                         update |-> m.update ])])
    /\ UNCHANGED <<clock, ticks, hosts, listings, queue, repeatable, boot, hook, calendarDays, work>>

\* The upsert looks for the row with the key.
UpsertFind(p) ==
    /\ proc[p].pc = "upsertFind"
    /\ SetProc(p, [proc[p] EXCEPT
           !.pc = "upsertWrite",
           !.found = HasGuestyId(listings, proc[p].upsert[1].where)])
    /\ UNCHANGED <<clock, ticks, hosts, listings, served, queue, repeatable, boot, hook, calendarDays, work>>

\* The upsert updates the row it found or inserts the one it did not find,
\* and the caller goes on: lines 225-237, or 269.
UpsertWrite(p) ==
    /\ proc[p].pc = "upsertWrite"
    /\ LET u == proc[p].upsert[1] IN
       IF ~proc[p].found /\ UniqueViolation(listings, u.create.guestyId)
       THEN Fail(p, "UniqueConstraint") /\ UNCHANGED listings
       ELSE /\ listings' = IF proc[p].found
                           THEN UpdateListing(listings, u.where, u.update)
                           ELSE InsertListing(listings, u.create)
            /\ LET listing == IF proc[p].found
                              THEN listings'[RowOf(listings, u.where)]
                              ELSE listings'[Len(listings')]
                   r == [proc[p] EXCEPT !.upsert = None, !.upserts = @ + 1]
               IN  IF proc[p].op = "syncAll"
                   THEN SetProc(p, RunLoop(
                            [r EXCEPT !.syncedListings = Append(@, listing)],
                            proc[p].idx + 1))
                   ELSE SetProc(p, [r EXCEPT !.pc = "done",
                                             !.listing = Some(listing)])
    /\ UNCHANGED <<clock, ticks, hosts, served, queue, repeatable, boot, hook, calendarDays, work>>

----------------------------------------------------------------------------
(* syncCalendarForListing, calendarSync.ts lines 47-151.  The upsert of a
   CalendarDay carries a nested write (listing.connect) as well: a lookup,
   then an insert or an update, with the unique pair of columns failing an
   insert whose row has appeared in between. *)

getListingWithHost_NullOnly(table, listingId) ==
    IF listingId \notin DOMAIN table THEN [ err |-> "NotFound", listing |-> None ]
    ELSE [ err |-> "", listing |-> Some(table[listingId]) ]

\* lines 47-65: the listing, or the error thrown.
getListingWithHost(table, listingId) ==
    IF listingId \notin DOMAIN table THEN [ err |-> "NotFound", listing |-> None ]
    ELSE IF ~TruthyId(Some(table[listingId].guestyId))
    THEN [ err |-> "NotLinked", listing |-> None ]
    ELSE [ err |-> "", listing |-> Some(table[listingId]) ]

DayUniqueViolation(table, key) == HasDay(table, key)

\* The first position from `from` on whose day has a date (line 99 skips the
\* others), 0 when there is none.
NextDated(rawDays, from) ==
    LET dated == { j \in from..Len(rawDays) : TruthyDate(rawDays[j].date) }
    IN  IF dated = {} THEN 0 ELSE CHOOSE j \in dated : \A k \in dated : j <= k

\* lines 98-150: the for loop from position `from` up to its next await.  A
\* date that does not parse gives an Invalid Date, which the upsert rejects
\* before it reaches the table.
RunDays(r, from) ==
    LET j == NextDated(r.rawDays, from) IN
    IF j = 0 THEN [r EXCEPT !.pc = "done", !.dayIdx = Len(r.rawDays) + 1]
    ELSE IF ParseDate(r.rawDays[j].date[1]) = None
    THEN [r EXCEPT !.pc = "failed", !.err = "InvalidDate", !.dayIdx = j]
    ELSE [r EXCEPT !.pc = "dayFind", !.dayIdx = j,
                   !.dayUpsert = Some(DayUpsertArgs(r.rawDays[j], r.calListing[1]))]

\* The vendor's answers to GET /availability (GuestyAvailabilityResponse).
AvailabilityResponse(ok, results, days, data) ==
    [ ok |-> ok, results |-> results, days |-> days, data |-> data ]

\* A caller invokes syncCalendarForListing(listingId).
CallSyncCalendar(p, l) ==
    /\ proc[p].pc \in {"idle", "done", "failed"}
    /\ SetProc(p, [IdleProc EXCEPT !.pc = "calLoad", !.op = "syncCalendar",
                                   !.listingId = l])
    /\ UNCHANGED <<clock, ticks, hosts, listings, served, queue, repeatable, boot, hook, calendarDays, work>>

\* lines 70-75: the listing is loaded; the call fails, or asks for a token.
CalendarLoad(p) ==
    /\ proc[p].pc = "calLoad"
    /\ LET got == getListingWithHost(listings, proc[p].listingId) IN
       IF got.err # "" THEN Fail(p, got.err)
       ELSE SetProc(p, [proc[p] EXCEPT !.pc = "token",
                                       !.tokenCalls = @ + 1,
                                       !.calListing = got.listing,
                                       !.hostId = got.listing[1].hostId])
    /\ UNCHANGED <<clock, ticks, hosts, listings, served, queue, repeatable, boot, hook, calendarDays, work>>

\* lines 82-98: the vendor answers the availability request, one of resps.
GetAvailability(p, resps) ==
    /\ proc[p].pc = "getAvailability"
    /\ \E resp \in resps :
         IF ~resp.ok
         THEN Fail(p, "VendorRequestError") /\ UNCHANGED served
         ELSE LET rawDays == Coalesce(resp.results, Coalesce(resp.days,
                               Coalesce(resp.data, Some(<<>>))))[1]
                  r == [proc[p] EXCEPT !.rawDays = rawDays,
                                       !.received = Append(@, rawDays)]
              IN  /\ served' = served + Len(rawDays)
                  /\ SetProc(p, RunDays(r, 1))
    /\ UNCHANGED <<clock, ticks, hosts, listings, queue, repeatable, boot, hook, calendarDays, work>>

\* The upsert looks for the row of the listing and the date.
DayFind(p) ==
    /\ proc[p].pc = "dayFind"
    /\ SetProc(p, [proc[p] EXCEPT
           !.pc = "dayWrite",
           !.dayFound = HasDay(calendarDays, proc[p].dayUpsert[1].where)])
    /\ UNCHANGED <<clock, ticks, hosts, listings, served, queue, repeatable, boot, hook, calendarDays, work>>

\* The upsert updates the row it found or inserts the one it did not find,
\* and the loop goes on: lines 147-150.
DayWrite(p) ==
    /\ proc[p].pc = "dayWrite"
    /\ LET u == proc[p].dayUpsert[1] IN
       IF ~proc[p].dayFound /\ DayUniqueViolation(calendarDays, u.where)
       THEN Fail(p, "UniqueConstraint") /\ UNCHANGED calendarDays
       ELSE /\ calendarDays' = IF proc[p].dayFound
                               THEN UpdateDay(calendarDays, u.where, u.update)
                               ELSE InsertDay(calendarDays, u.create)
            /\ LET day == IF proc[p].dayFound
                          THEN calendarDays'[DayRowOf(calendarDays, u.where)]
                          ELSE calendarDays'[Len(calendarDays')]
               IN  SetProc(p, RunDays(
                       [proc[p] EXCEPT !.dayUpsert = None, !.dayWrites = @ + 1,
                                       !.syncedDays = Append(@, day)],
                       proc[p].dayIdx + 1))
    /\ UNCHANGED <<clock, ticks, hosts, listings, served, queue, repeatable, boot, hook, work>>

----------------------------------------------------------------------------
(* GET /auth/guesty/callback, part_000 lines 174-277: the authorization-code
   exchange that first stores a host's credentials. *)

Job(name, data) == [name |-> name, data |-> data]

\* The rows other than h that already carry the account identifier acc.
AccountTaken(h, acc) ==
    acc # None /\ \E g \in DOMAIN hosts : g # h /\ hosts[g].guestyAccountId = acc

\* lines 237-255: the fields prisma.host.update writes.
CallbackUpdate(tokenJson, now) ==
    [ guestyAccountId    |-> Coalesce(tokenJson.account_id, tokenJson.accountId),
      guestyAccessToken  |-> tokenJson.access_token,
      guestyRefreshToken |-> tokenJson.refresh_token,
      guestyTokenType    |-> tokenJson.token_type,
      guestyScope        |-> tokenJson.scope,
      guestyExpiresAt    |-> ExpiresAt(tokenJson, now) ]

\* The request carries code and state = h.  A rejected exchange or a response
\* without access token answers 502, a failing update (no such host, or the
\* account identifier already on another row) answers 500; both leave the
\* store alone.  Otherwise the row is written and a first sync is queued.
GuestyCallback(h) ==
    /\ Len(queue) < MaxQueue
    /\ \E tokenJson \in TokenResponses :
         LET data == CallbackUpdate(tokenJson, clock) IN
         IF \/ ~tokenJson.ok
            \/ ~TruthyStr(tokenJson.access_token)
            \/ h \notin DOMAIN hosts
            \/ AccountTaken(h, data.guestyAccountId)
         THEN UNCHANGED <<hosts, queue>>
         ELSE /\ hosts' = [hosts EXCEPT ![h] = ApplyUpdate(hosts[h], data)]
              /\ queue' = Append(queue, Job("sync-listings", [hostId |-> h]))
    /\ UNCHANGED <<clock, ticks, listings, served, proc, repeatable, boot, hook, calendarDays, work>>

----------------------------------------------------------------------------
(* Time. *)

Tick ==
    /\ ticks < MaxTicks
    /\ \E d \in TickSteps : clock' = clock + d
    /\ ticks' = ticks + 1
    /\ UNCHANGED <<hosts, listings, served, proc, queue, repeatable, boot, hook, calendarDays, work>>

----------------------------------------------------------------------------
(* The token manager on its own: hosts are linked by the authorization
   callback, callers ask for tokens concurrently, time passes. *)

InitToken ==
    /\ clock = 0
    /\ ticks = 0
    /\ hosts = [h \in HostIds |-> NewHost]
    /\ listings = <<>>
    /\ served = 0
    /\ proc = [p \in Procs |-> IdleProc]
    /\ queue = <<>>
    /\ repeatable = {}
    /\ boot = [starts |-> 0, registered |-> 0]
    /\ hook = None
    /\ calendarDays = <<>>
    /\ work = NoWork

NextToken ==
    \/ \E h \in CallHostIds : GuestyCallback(h)
    \/ \E h \in CallHostIds : CallGetToken("p1", h)
    \/ TokenLoad("p1")
    \/ TokenPost("p1")
    \/ TokenWrite("p1")
    \/ Tick

SpecToken == InitToken /\ [][NextToken]_vars

----------------------------------------------------------------------------
(* The listing synchronizer, one call after the other: a caller syncs all
   listings of a host or a single one, again and again, against a vendor
   whose small collection changes from request to request. *)

\* A host with stored credentials.
LinkedHost(acc, at, rt, exp) ==
    [ NewHost EXCEPT !.guestyAccountId = Some(acc),
                     !.guestyAccessToken = Some(at),
                     !.guestyRefreshToken = Some(rt),
                     !.guestyTokenType = Some("Bearer"),
                     !.guestyExpiresAt = Some(exp) ]

\* Both hosts hold a token that is good for an hour.
SyncHosts ==
    [ h \in HostIds |->
        IF h = 1 THEN LinkedHost("acct1", "A0", "R0", 3600000)
        ELSE LinkedHost("acct2", "B0", "S0", 3600000) ]

\* The table before the run: empty, or with the row an earlier sync of
\* host 2 has created for identifier 1.
InitTables ==
    { <<>>,
      InsertListing(<<>>, mapGuestyListingToPrismaData(RawHistorical, 2).create) }

PageRaws == {RawCanonical, RawBare, RawNoId, RawEmptyId}

OneRaws == {RawCanonical, RawHistorical, RawBare, RawNoId, RawEmptyId, RawNegative}

\* What the vendor may report as page count: nothing, 0, 1 or 2.
PagesFields == {None, Some(0), Some(1), Some(2)}

\* The identifiers a single-listing sync is asked for.
RequestIds == {1, 2}

\* The pages of at most n records out of raws.
PagesUpTo(raws, n) == UNION { [1..k -> raws] : k \in 0..n }

\* The answers of a small collection of the records raws, reporting one of
\* pgs as page count: an error, no list at all, or a page under either of
\* the two names the vendor has used for it.
ListResponsesOf(raws, pgs) ==
    LET room == IF MaxServed - served < MaxPageLen THEN MaxServed - served
                ELSE MaxPageLen
    IN  {ListResponse(FALSE, None, None, None), ListResponse(TRUE, None, None, None)}
        \cup { ListResponse(TRUE, Some(c), None, pg) :
                 c \in PagesUpTo(raws, room), pg \in pgs }
        \cup { ListResponse(TRUE, None, Some(c), pg) :
                 c \in PagesUpTo(raws, room), pg \in pgs }

ListResponses == ListResponsesOf(PageRaws, PagesFields)

Init ==
    /\ clock = 0
    /\ ticks = 0
    /\ hosts = SyncHosts
    /\ listings \in InitTables
    /\ served = 0
    /\ proc = [p \in Procs |-> IdleProc]
    /\ queue = <<>>
    /\ repeatable = {}
    /\ boot = [starts |-> 0, registered |-> 0]
    /\ hook = None
    /\ calendarDays = <<>>
    /\ work = NoWork

Next ==
    \/ \E h \in CallHostIds : CallSyncAll("p1", h)
    \/ \E h \in CallHostIds, g \in RequestIds : CallSyncOne("p1", h, g)
    \/ TokenLoad("p1")
    \/ ListPage("p1", ListResponses)
    \/ GetListing("p1", OneRaws)
    \/ UpsertFind("p1")
    \/ UpsertWrite("p1")

Spec == Init /\ [][Next]_vars

----------------------------------------------------------------------------
(* The token manager under concurrency: two callers ask for the token of a
   host at the same time (two jobs of the queue, or a job and a request),
   one call each, while the stored tokens have run out. *)

\* Both hosts hold a token that has expired.
StaleHosts ==
    [ h \in HostIds |->
        IF h = 1 THEN LinkedHost("acct1", "A0", "R0", 0)
        ELSE LinkedHost("acct2", "B0", "S0", 0) ]

InitTokenRace ==
    /\ clock = 0
    /\ ticks = 0
    /\ hosts = StaleHosts
    /\ listings = <<>>
    /\ served = 0
    /\ proc = [p \in Procs |-> IdleProc]
    /\ queue = <<>>
    /\ repeatable = {}
    /\ boot = [starts |-> 0, registered |-> 0]
    /\ hook = None
    /\ calendarDays = <<>>
    /\ work = NoWork

NextTokenRace ==
    \/ \E p \in Procs, h \in HostIds :
          proc[p].pc = "idle" /\ CallGetToken(p, h)
    \/ \E p \in Procs : TokenLoad(p)
    \/ \E p \in Procs : TokenPost(p)
    \/ \E p \in Procs : TokenWrite(p)
    \/ Tick

SpecTokenRace == InitTokenRace /\ [][NextTokenRace]_vars

----------------------------------------------------------------------------
(* The listing synchronizer under concurrency: two workers run a
   sync-listings or sync-single-listing job each, at the same time (part_001
   lines 31-41), against a vendor whose records all carry identifier 1 or 2. *)

RaceRaws == {RawCanonical, RawHistorical, RawBare}

RaceListResponses == ListResponsesOf(RaceRaws, {None, Some(2)})

InitRace ==
    /\ clock = 0
    /\ ticks = 0
    /\ hosts = SyncHosts
    /\ listings = <<>>
    /\ served = 0
    /\ proc = [p \in Procs |-> IdleProc]
    /\ queue = <<>>
    /\ repeatable = {}
    /\ boot = [starts |-> 0, registered |-> 0]
    /\ hook = None
    /\ calendarDays = <<>>
    /\ work = NoWork

\* Each worker runs one job.
NextRace ==
    \/ \E p \in Procs, h \in HostIds :
          proc[p].pc = "idle" /\ CallSyncAll(p, h)
    \/ \E p \in Procs, h \in HostIds, g \in RequestIds :
          proc[p].pc = "idle" /\ CallSyncOne(p, h, g)
    \/ \E p \in Procs : TokenLoad(p)
    \/ \E p \in Procs : ListPage(p, RaceListResponses)
    \/ \E p \in Procs : GetListing(p, RaceRaws)
    \/ \E p \in Procs : UpsertFind(p)
    \/ \E p \in Procs : UpsertWrite(p)

SpecRace == InitRace /\ [][NextRace]_vars

----------------------------------------------------------------------------
(* Paging: one syncAllListingsForHost call through a large collection whose
   records all carry an identifier of their own, and which reports no page
   count. *)

\* The sizes of the pages the vendor sends.
BulkSizes == {0, 13, 49, 50}

\* The k-th record of the collection.
BulkRaw(k) == [EmptyListing EXCEPT !._id = Some(k), !.title = Some("Unit")]

\* The answers to the request for page `page`: the next n records.
BulkListResponses(page) ==
    { ListResponse(TRUE,
          Some([i \in 1..n |-> BulkRaw((page - 1) * DEFAULT_PAGE_SIZE + i)]),
          None, None) : n \in BulkSizes }

InitPages ==
    /\ clock = 0
    /\ ticks = 0
    /\ hosts = SyncHosts
    /\ listings = <<>>
    /\ served = 0
    /\ proc = [p \in Procs |-> IdleProc]
    /\ queue = <<>>
    /\ repeatable = {}
    /\ boot = [starts |-> 0, registered |-> 0]
    /\ hook = None
    /\ calendarDays = <<>>
    /\ work = NoWork

NextPages ==
    \/ proc["p1"].pc = "idle" /\ CallSyncAll("p1", 1)
    \/ TokenLoad("p1")
    \/ /\ proc["p1"].page <= MaxBulkPages
       /\ ListPage("p1", BulkListResponses(proc["p1"].page))
    \/ UpsertFind("p1")
    \/ UpsertWrite("p1")

SpecPages == InitPages /\ [][NextPages]_vars

----------------------------------------------------------------------------
(* Paging against a vendor that reports a page count: one
   syncAllListingsForHost call; every answer carries no page count, a count
   of 0 or a count of 2, and an empty, a short or a full page. *)

\* The sizes of the pages the vendor sends.
CountedSizes == {0, 2, 50}

\* What the vendor reports as page count.
CountedPagesFields == {None, Some(0), Some(2)}

\* The answers to the request for page `page`.
CountedListResponses(page) ==
    { ListResponse(TRUE,
          Some([i \in 1..n |-> BulkRaw((page - 1) * DEFAULT_PAGE_SIZE + i)]),
          None, pg) : n \in CountedSizes, pg \in CountedPagesFields }

NextPageCount ==
    \/ proc["p1"].pc = "idle" /\ CallSyncAll("p1", 1)
    \/ TokenLoad("p1")
    \/ /\ proc["p1"].page <= MaxBulkPages
       /\ ListPage("p1", CountedListResponses(proc["p1"].page))
    \/ UpsertFind("p1")
    \/ UpsertWrite("p1")

SpecPageCount == InitPages /\ [][NextPageCount]_vars

----------------------------------------------------------------------------
(* The calendar synchronizer, one call after the other.  It is noon of
   1970-01-02: the current UTC day begins at hour 24. *)

CalendarNow == 36 * 3600000

\* Both hosts hold a token that is good for an hour.
CalendarHosts ==
    [ h \in HostIds |->
        IF h = 1 THEN LinkedHost("acct1", "A0", "R0", CalendarNow + 3600000)
        ELSE LinkedHost("acct2", "B0", "S0", CalendarNow + 3600000) ]

\* Listing 1 is linked to the vendor's listing 1 and has base price 120;
\* listing 2 carries the empty vendor identifier; there is no listing 3.
CalendarListings ==
    InsertListing(
      InsertListing(<<>>, mapGuestyListingToPrismaData(RawCanonical, 1).create),
      mapGuestyListingToPrismaData(RawEmptyId, 2).create)

CalendarListingIds == {1, 2, 3}

\* The table before the run: empty, or with yesterday's row of listing 1.
InitCalendarTables ==
    { <<>>,
      InsertDay(<<>>, [ listingId |-> 1, date |-> 0, available |-> TRUE,
                        price |-> Decimal(100), minStay |-> 1 ]) }

\* Days as the vendor sends them: today as a bare date with nothing else; a
\* timestamp late today with price 0; a timestamp of today evening five hours
\* west of UTC, which is tomorrow in UTC; yesterday; a day without date; a
\* day with date ""; a day whose date is no date; a day past the window; the
\* day after tomorrow with a minimum stay of 0 nights under one of its names.
DayBare == [ EmptyDay EXCEPT !.date = Some(DateText("iso", 1, 0, 0)) ]

DayLate ==
    [ EmptyDay EXCEPT !.date = Some(DateText("iso", 1, 23, 0)),
                      !.available = Some(FALSE), !.price = Some(0),
                      !.nightlyPrice = Some(90), !.minNights = Some(3) ]

DayWest ==
    [ EmptyDay EXCEPT !.date = Some(DateText("iso", 1, 22, -5)),
                      !.nightlyPrice = Some(95), !.basePrice = Some(80),
                      !.minimumStay = Some(2), !.minStay = Some(7) ]

DayPast ==
    [ EmptyDay EXCEPT !.date = Some(DateText("iso", 0, 0, 0)),
                      !.defaultDailyPrice = Some(70), !.minStay = Some(4) ]

DayNoDate == [ EmptyDay EXCEPT !.price = Some(50) ]

DayEmptyDate == [ EmptyDay EXCEPT !.date = Some(DateText("empty", 0, 0, 0)) ]

DayNotADate == [ EmptyDay EXCEPT !.date = Some(DateText("text", 0, 0, 0)) ]

DayBeyond ==
    [ EmptyDay EXCEPT !.date = Some(DateText("iso", 200, 0, 0)),
                      !.basePrice = Some(60) ]

DayNoStay ==
    [ EmptyDay EXCEPT !.date = Some(DateText("iso", 3, 0, 0)),
                      !.price = Some(110), !.minNights = Some(0),
                      !.minStay = Some(3) ]

RawDays ==
    { DayBare, DayLate, DayWest, DayPast, DayNoDate, DayEmptyDate, DayNotADate,
      DayBeyond, DayNoStay }

\* The answers of the vendor with the days raws: an error, no list at all, or
\* a list under one of the three names the vendor has used for it.
AvailabilityResponsesOf(raws) ==
    LET room == IF MaxServed - served < MaxPageLen THEN MaxServed - served
                ELSE MaxPageLen
    IN  { AvailabilityResponse(FALSE, None, None, None),
          AvailabilityResponse(TRUE, None, None, None),
          AvailabilityResponse(TRUE, None, Some(<<>>), Some(<<DayPast>>)),
          AvailabilityResponse(TRUE, None, None, Some(<<>>)) }
        \cup { AvailabilityResponse(TRUE, Some(c), None, None) :
                 c \in PagesUpTo(raws, room) }

InitCalendar ==
    /\ clock = CalendarNow
    /\ ticks = 0
    /\ hosts = CalendarHosts
    /\ listings = CalendarListings
    /\ served = 0
    /\ proc = [p \in Procs |-> IdleProc]
    /\ queue = <<>>
    /\ repeatable = {}
    /\ boot = [starts |-> 0, registered |-> 0]
    /\ hook = None
    /\ calendarDays \in InitCalendarTables
    /\ work = NoWork

NextCalendar ==
    \/ \E l \in CalendarListingIds : CallSyncCalendar("p1", l)
    \/ CalendarLoad("p1")
    \/ TokenLoad("p1")
    \/ GetAvailability("p1", AvailabilityResponsesOf(RawDays))
    \/ DayFind("p1")
    \/ DayWrite("p1")

SpecCalendar == InitCalendar /\ [][NextCalendar]_vars

----------------------------------------------------------------------------
(* The calendar synchronizer under concurrency: two workers run a
   sync-calendar job each for listing 1 at the same time (part_001 lines
   43-47). *)

RaceDays == {DayBare, DayLate, DayWest, DayPast}

InitCalendarRace ==
    /\ clock = CalendarNow
    /\ ticks = 0
    /\ hosts = CalendarHosts
    /\ listings = CalendarListings
    /\ served = 0
    /\ proc = [p \in Procs |-> IdleProc]
    /\ queue = <<>>
    /\ repeatable = {}
    /\ boot = [starts |-> 0, registered |-> 0]
    /\ hook = None
    /\ calendarDays \in InitCalendarTables
    /\ work = NoWork

NextCalendarRace ==
    \/ \E p \in Procs : proc[p].pc = "idle" /\ CallSyncCalendar(p, 1)
    \/ \E p \in Procs : CalendarLoad(p)
    \/ \E p \in Procs : TokenLoad(p)
    \/ \E p \in Procs : GetAvailability(p, AvailabilityResponsesOf(RaceDays))
    \/ \E p \in Procs : DayFind(p)
    \/ \E p \in Procs : DayWrite(p)

SpecCalendarRace == InitCalendarRace /\ [][NextCalendarRace]_vars

----------------------------------------------------------------------------
(* The recurring job and the handler of sync-all-hosts, part_001 lines 49-76. *)

\* The options the recurring job is added with.
RecurringJobOpts ==
    [ jobId |-> "sync-all-hosts-recurring", cron |-> "0 */6 * * *", tz |-> "UTC" ]

\* The key under which the queue files a repeatable job: its name, its job
\* id and its schedule.  A key that is filed already is not filed again.
RepeatKey(name, opts) ==
    [ name |-> name, jobId |-> opts.jobId, cron |-> opts.cron, tz |-> opts.tz ]

ConnectedHostIds_AccountOnly(table) ==
    { h \in DOMAIN table : table[h].guestyAccountId # None }

\* lines 51-57: the hosts findMany selects, those whose account identifier
\* and refresh token are both not null.
ConnectedHostIds(table) ==
    { h \in DOMAIN table : /\ table[h].guestyAccountId # None
                           /\ table[h].guestyRefreshToken # None }

\* The orders in which a query without orderBy may return the rows S.
Orders(S) ==
    { f \in [1..Cardinality(S) -> S] :
        \A i, j \in 1..Cardinality(S) : i # j => f[i] # f[j] }

\* lines 59-61: the for loop at position `from`, up to its next await.
RunFanOut(r, from) ==
    IF from > Len(r.fanHosts) THEN [r EXCEPT !.pc = "done", !.fanIdx = from]
    ELSE [r EXCEPT !.pc = "fanAdd", !.fanIdx = from]

\* lines 51-59: the handler loads the connected hosts.
FanOutLoad(p) ==
    /\ proc[p].pc = "fanLoad"
    /\ \E order \in Orders(ConnectedHostIds(hosts)) :
          SetProc(p, RunFanOut([proc[p] EXCEPT !.fanHosts = order], 1))
    /\ UNCHANGED <<clock, ticks, hosts, listings, served, queue, repeatable, boot, hook, calendarDays, work>>

\* line 60: the job of the host at hand is added and the loop goes on, or
\* the queue rejects the add, which the handler does not catch.
FanOutAdd(p) ==
    /\ proc[p].pc = "fanAdd"
    /\ \/ /\ Fail(p, "QueueError")
          /\ UNCHANGED <<queue, work>>
       \/ LET job == [ id           |-> work.added + 1,
                       name         |-> "sync-listings",
                       data         |-> [hostId |-> proc[p].fanHosts[proc[p].fanIdx]],
                       opts         |-> [attempts |-> 1],
                       attemptsMade |-> 0 ]
          IN  /\ queue' = Append(queue, job)
              /\ work' = [work EXCEPT !.added = @ + 1]
              /\ SetProc(p, RunFanOut([proc[p] EXCEPT !.fanAdded = Append(@, job)],
                                      proc[p].fanIdx + 1))
    /\ UNCHANGED <<clock, ticks, hosts, listings, served, repeatable, boot, hook, calendarDays>>

\* The schedule of a repeatable job comes round: the queue adds a job of its
\* name with the data it was registered with, {}.
CronFires ==
    /\ work.added < MaxJobs
    /\ \E key \in repeatable :
          /\ queue' = Append(queue, [ id           |-> work.added + 1,
                                      name         |-> key.name,
                                      data         |-> <<>>,
                                      opts         |-> [attempts |-> 1],
                                      attemptsMade |-> 0 ])
          /\ work' = [work EXCEPT !.added = @ + 1]
    /\ UNCHANGED <<clock, ticks, hosts, listings, served, proc, repeatable, boot, hook, calendarDays>>

----------------------------------------------------------------------------
(* The workers of the queue, part_001 lines 14-47, and POST /listings/sync,
   listings.ts lines 252-264.  The queue is created without default job
   options and every job is added without options of its own, so a job is
   attempted once: a job whose handler throws is filed as failed. *)

\* The options of a job added as syncQueue.add(name, data).
DefaultJobOpts == [ attempts |-> 1 ]

\* A job as the queue keeps it.
QueuedJob(id, name, data, opts) ==
    [ id |-> id, name |-> name, data |-> data, opts |-> opts, attemptsMade |-> 0 ]

\* lines 252-264: the host of the token asks for a sync; the job is added, or
\* the add is rejected and the request answered 500.
ManualSync(h) ==
    /\ work.added < MaxJobs
    /\ Len(queue) < MaxQueue
    /\ \/ /\ queue' = Append(queue, QueuedJob(work.added + 1, "sync-listings",
                                              [hostId |-> h], DefaultJobOpts))
          /\ work' = [work EXCEPT !.added = @ + 1]
       \/ UNCHANGED <<queue, work>>
    /\ UNCHANGED <<clock, ticks, hosts, listings, served, proc, repeatable, boot, hook, calendarDays>>

\* part_001 lines 31-47: a free worker takes the job at the head of the queue
\* and calls the handler registered for its name.
TakeJob(p) ==
    /\ work.active[p] = None
    /\ queue # <<>>
    /\ LET job == Head(queue) IN
       /\ queue' = Tail(queue)
       /\ work' = [work EXCEPT !.active[p] = Some(job)]
       /\ CASE job.name = "sync-listings" ->
                 SetProc(p, StartProc(p, "syncAll", job.data.hostId))
            [] job.name = "sync-single-listing" ->
                 SetProc(p, [StartProc(p, "syncOne", job.data.hostId) EXCEPT
                                !.guestyListingId = job.data.guestyListingId])
            [] job.name = "sync-all-hosts" ->
                 SetProc(p, [IdleProc EXCEPT !.pc = "fanLoad", !.op = "syncAllHosts"])
            [] OTHER ->
                 SetProc(p, [IdleProc EXCEPT !.pc = "calLoad", !.op = "syncCalendar",
                                             !.listingId = job.data.listingId])
    /\ UNCHANGED <<clock, ticks, hosts, listings, served, repeatable, boot, hook, calendarDays>>

\* The handler of worker p has returned or thrown: the job is completed, or
\* its attempt has failed; a failed job with attempts left goes back to the
\* queue, one without is filed as failed.
JobSettled(p) ==
    /\ work.active[p] # None
    /\ proc[p].pc \in {"done", "failed"}
    /\ LET job == [work.active[p][1] EXCEPT !.attemptsMade = @ + 1] IN
       IF proc[p].pc = "done"
       THEN /\ work' = [work EXCEPT !.active[p] = None,
                                    !.completed = Append(@, job)]
            /\ UNCHANGED queue
       ELSE IF job.attemptsMade < job.opts.attempts
       THEN /\ work' = [work EXCEPT !.active[p] = None]
            /\ queue' = Append(queue, job)
       ELSE /\ work' = [work EXCEPT !.active[p] = None,
                                    !.failed = Append(@, job)]
            /\ UNCHANGED queue
    /\ SetProc(p, IdleProc)
    /\ UNCHANGED <<clock, ticks, hosts, listings, served, repeatable, boot, hook, calendarDays>>

\* The vendor of the worker runs: a request fails, or returns the one record
\* of the collection.
WorkerListResponses ==
    { ListResponse(FALSE, None, None, None),
      ListResponse(TRUE, Some(<<RawBare>>), None, None) }

InitWorker ==
    /\ clock = 0
    /\ ticks = 0
    /\ hosts = SyncHosts
    /\ listings = <<>>
    /\ served = 0
    /\ proc = [p \in Procs |-> IdleProc]
    /\ queue = <<>>
    /\ repeatable = {}
    /\ boot = [starts |-> 0, registered |-> 0]
    /\ hook = None
    /\ calendarDays = <<>>
    /\ work = NoWork

\* What the workers do.
WorkerStep ==
    \/ \E p \in Procs : TakeJob(p)
    \/ \E p \in Procs : work.active[p] # None /\ TokenLoad(p)
    \/ \E p \in Procs : work.active[p] # None /\ ListPage(p, WorkerListResponses)
    \/ \E p \in Procs : work.active[p] # None /\ UpsertFind(p)
    \/ \E p \in Procs : work.active[p] # None /\ UpsertWrite(p)
    \/ \E p \in Procs : JobSettled(p)

NextWorker ==
    \/ \E h \in CallHostIds : ManualSync(h)
    \/ WorkerStep

\* The workers keep working as long as there is something for them to do.
SpecWorker == InitWorker /\ [][NextWorker]_vars /\ WF_vars(WorkerStep)

----------------------------------------------------------------------------
(* The recurring sync: the schedule fires, a worker runs the sync-all-hosts
   handler and then the jobs it has added. *)

\* The hosts a run may find: not linked, linked, linked without account
\* identifier, linked without refresh token, linked with an empty one.
FanOutHostRows ==
    { NewHost,
      LinkedHost("acct1", "A0", "R0", 3600000),
      [LinkedHost("acct1", "A0", "R0", 3600000) EXCEPT !.guestyAccountId = None],
      [LinkedHost("acct1", "A0", "R0", 3600000) EXCEPT !.guestyRefreshToken = None],
      [LinkedHost("acct1", "A0", "R0", 3600000) EXCEPT !.guestyRefreshToken = Some("")] }

\* Two hosts never carry the same account identifier: the second host's is
\* its own.
FanOutHosts ==
    { [ h \in HostIds |->
          IF h = 2 /\ rows[h].guestyAccountId # None
          THEN [rows[h] EXCEPT !.guestyAccountId = Some("acct2")]
          ELSE rows[h] ] : rows \in [HostIds -> FanOutHostRows] }

InitFanOut ==
    /\ clock = 0
    /\ ticks = 0
    /\ hosts \in FanOutHosts
    /\ listings = <<>>
    /\ served = 0
    /\ proc = [p \in Procs |-> IdleProc]
    /\ queue = <<>>
    /\ repeatable = { RepeatKey("sync-all-hosts", RecurringJobOpts) }
    /\ boot = [starts |-> 1, registered |-> 1]
    /\ hook = None
    /\ calendarDays = <<>>
    /\ work = NoWork

NextFanOut ==
    \/ CronFires
    \/ TakeJob("p1")
    \/ FanOutLoad("p1")
    \/ FanOutAdd("p1")
    \/ work.active["p1"] # None /\ TokenLoad("p1")
    \/ work.active["p1"] # None /\ ListPage("p1", WorkerListResponses)
    \/ work.active["p1"] # None /\ UpsertFind("p1")
    \/ work.active["p1"] # None /\ UpsertWrite("p1")
    \/ JobSettled("p1")

SpecFanOut == InitFanOut /\ [][NextFanOut]_vars

----------------------------------------------------------------------------
(* The job queue at process start, part_001 lines 64-76. *)

ProcessStart_FreshJobId ==
    /\ boot.starts < MaxStarts
    /\ \/ /\ repeatable' = repeatable \cup
                { RepeatKey("sync-all-hosts",
                    [RecurringJobOpts EXCEPT !.jobId =
                        IF boot.starts = 0 THEN @ ELSE "sync-all-hosts"]) }
          /\ boot' = [starts |-> boot.starts + 1, registered |-> boot.registered + 1]
       \/ /\ repeatable' = repeatable
          /\ boot' = [boot EXCEPT !.starts = @ + 1]
    /\ UNCHANGED <<clock, ticks, hosts, listings, served, proc, queue, hook, calendarDays, work>>

\* The module is loaded: the recurring job is added.  The promise of add is
\* dropped (void), so an add the queue rejects leaves the registry as it was.
ProcessStart ==
    /\ boot.starts < MaxStarts
    /\ \/ /\ repeatable' = repeatable \cup
                { RepeatKey("sync-all-hosts", RecurringJobOpts) }
          /\ boot' = [starts |-> boot.starts + 1, registered |-> boot.registered + 1]
       \/ /\ repeatable' = repeatable
          /\ boot' = [boot EXCEPT !.starts = @ + 1]
    /\ UNCHANGED <<clock, ticks, hosts, listings, served, proc, queue, hook, calendarDays, work>>

----------------------------------------------------------------------------
(* POST /webhooks/guesty, listings.ts lines 306-437. *)

LISTING_EVENTS == {"listing.created", "listing.updated"}

RESERVATION_EVENTS ==
    {"reservation.created", "reservation.updated", "reservation.cancelled"}

\* A webhook body (GuestyWebhookBody) with every field absent.
EmptyBody ==
    [ event |-> None, type |-> None,
      accountId |-> None, account_id |-> None, integrationId |-> None,
      integration_id |-> None, account |-> None, accountID |-> None,
      listing |-> None, listingId |-> None, listing_id |-> None,
      reservation |-> None, _id |-> None, id |-> None ]

\* body.listing and body.reservation.listing; body.reservation.
IdPair(a, b) == [ _id |-> a, id |-> b ]

EmptyReservation == [ listing |-> None, listingId |-> None, listing_id |-> None ]

\* a?.f
Field(a, f) == IF a = None THEN None ELSE a[1][f]

\* lines 328-338: the account identifier of the payload, None when it is
\* absent or empty.
PayloadAccountId(body) ==
    LET accountId ==
          Coalesce(body.accountId, Coalesce(body.account_id,
            Coalesce(body.integrationId, Coalesce(body.integration_id,
              Coalesce(body.account, body.accountID)))))
    IN  IF TruthyStr(accountId) THEN accountId ELSE None

resolveHostIdFromPayload_FirstHost(body) ==
    LET accountId == PayloadAccountId(body)
        found == { h \in DOMAIN hosts : hosts[h].guestyAccountId = accountId }
    IN  IF accountId = None \/ found = {} THEN Some(1)
        ELSE Some(CHOOSE h \in found : TRUE)

\* lines 325-346, the lookup succeeding
resolveHostIdFromPayload(body) ==
    LET accountId == PayloadAccountId(body)
        found == { h \in DOMAIN hosts : hosts[h].guestyAccountId = accountId }
    IN  IF accountId = None \/ found = {} THEN None
        ELSE Some(CHOOSE h \in found : TRUE)

\* lines 348-371
extractGuestyListingId(body) ==
    LET fromListing ==
          Coalesce(Field(body.listing, "_id"), Coalesce(Field(body.listing, "id"),
            Coalesce(body.listingId, body.listing_id)))
        fromReservation ==
          Coalesce(Field(Field(body.reservation, "listing"), "_id"),
            Coalesce(Field(Field(body.reservation, "listing"), "id"),
              Coalesce(Field(body.reservation, "listingId"),
                       Field(body.reservation, "listing_id"))))
        topLevel == Coalesce(body._id, body.id)
    IN  Coalesce(fromListing, Coalesce(fromReservation, topLevel))

\* lines 393-394
EventType(body) == Coalesce(body.event, Coalesce(body.type, Some("")))[1]

\* A request: raw is what the body parser hands over, "object" for the JSON
\* text of the object `body`, "null" for the JSON text null, "garbage" for
\* text that is no JSON.
Request(raw, body) == [ raw |-> raw, body |-> body ]

\* lines 374-391: the parsed body, None for null.
ParseBody(req) ==
    CASE req.raw = "object"  -> Some(req.body)
      [] req.raw = "garbage" -> Some(EmptyBody)
      [] OTHER               -> None

\* What a handled request leaves behind: the status answered (0 when the
\* handler answers nothing itself), the jobs it added, whether its catch
\* block logged an error and whether an error escaped it.
Outcome(req, status, added, caught, escaped) ==
    [ req |-> req, status |-> status, added |-> added,
      caught |-> caught, escaped |-> escaped ]

JobFor_IgnoresEventType(body) ==
    LET eventType == EventType(body)
        guestyListingId == extractGuestyListingId(body)
    IN  IF eventType \notin RESERVATION_EVENTS
        THEN LET hostId == resolveHostIdFromPayload(body) IN
             IF hostId # None /\ TruthyId(guestyListingId)
             THEN Some(Job("sync-single-listing",
                           [ hostId |-> hostId[1],
                             guestyListingId |-> guestyListingId[1] ]))
             ELSE None
        ELSE IF TruthyId(guestyListingId) /\ HasGuestyId(listings, guestyListingId[1])
             THEN Some(Job("sync-calendar",
                           [ listingId |->
                               listings[RowOf(listings, guestyListingId[1])].id ]))
             ELSE None

\* lines 396-424, no lookup failing: the job the event asks for, if any.
JobFor(body) ==
    LET eventType == EventType(body)
        guestyListingId == extractGuestyListingId(body)
    IN  IF eventType \in LISTING_EVENTS
        THEN LET hostId == resolveHostIdFromPayload(body) IN
             IF hostId # None /\ TruthyId(guestyListingId)
             THEN Some(Job("sync-single-listing",
                           [ hostId |-> hostId[1],
                             guestyListingId |-> guestyListingId[1] ]))
             ELSE None
        ELSE IF eventType \in RESERVATION_EVENTS
        THEN IF TruthyId(guestyListingId) /\ HasGuestyId(listings, guestyListingId[1])
             THEN Some(Job("sync-calendar",
                           [ listingId |->
                               listings[RowOf(listings, guestyListingId[1])].id ]))
             ELSE None
        ELSE None

\* lines 396-424: whether the event makes the handler query the database.
QueriesDatabase(body) ==
    \/ EventType(body) \in LISTING_EVENTS /\ PayloadAccountId(body) # None
    \/ EventType(body) \in RESERVATION_EVENTS
         /\ TruthyId(extractGuestyListingId(body))

\* The handler runs on req.  Reading the event type of a null body throws
\* before the try block: the error escapes, and the framework answers 500 or
\* nothing.  A failing query is caught and logged.  The promise of add is
\* dropped (void): a rejected add is caught by nobody.
GuestyWebhook(req) ==
    /\ Len(queue) < MaxQueue
    /\ LET parsed == ParseBody(req) IN
       IF parsed = None
       THEN /\ \E status \in {0, 500} :
                 hook' = Some(Outcome(req, status, <<>>, FALSE, TRUE))
            /\ UNCHANGED queue
       ELSE LET body == parsed[1] IN
            \/ /\ QueriesDatabase(body)
               /\ hook' = Some(Outcome(req, 200, <<>>, TRUE, FALSE))
               /\ UNCHANGED queue
            \/ /\ JobFor(body) = None
               /\ hook' = Some(Outcome(req, 200, <<>>, FALSE, FALSE))
               /\ UNCHANGED queue
            \/ /\ JobFor(body) # None
               /\ \/ /\ queue' = Append(queue, JobFor(body)[1])
                     /\ hook' = Some(Outcome(req, 200, <<JobFor(body)[1]>>, FALSE, FALSE))
                  \/ /\ UNCHANGED queue
                     /\ hook' = Some(Outcome(req, 200, <<>>, FALSE, TRUE))
    /\ UNCHANGED <<clock, ticks, hosts, listings, served, proc, repeatable, boot, calendarDays, work>>

\* The events the vendor, or anyone, posts.
WebhookRequests ==
    { Request("null", EmptyBody),
      Request("garbage", EmptyBody),
      Request("object", [EmptyBody EXCEPT !.event = Some("ping"),
                            !.accountId = Some("acct1"), !.listingId = Some(1)]),
      Request("object", [EmptyBody EXCEPT !.event = Some("listing.updated"),
                            !.accountId = Some("acct1"),
                            !.listing = Some(IdPair(Some(1), Some(2)))]),
      Request("object", [EmptyBody EXCEPT !.type = Some("listing.created"),
                            !.account_id = Some("nobody"), !.listingId = Some(2)]),
      Request("object", [EmptyBody EXCEPT !.event = Some("listing.updated"),
                            !.listing_id = Some(1)]),
      Request("object", [EmptyBody EXCEPT !.event = Some("listing.updated"),
                            !.accountId = Some(""), !.account_id = Some("acct1"),
                            !.listingId = Some(1)]),
      Request("object", [EmptyBody EXCEPT !.event = Some("listing.created"),
                            !.integrationId = Some("acct2"), !.id = Some(2)]),
      Request("object", [EmptyBody EXCEPT !.event = Some("listing.updated"),
                            !.accountID = Some("acct2"), !.listingId = Some(0)]),
      Request("object", [EmptyBody EXCEPT !.event = Some("reservation.created"),
                            !.reservation = Some([EmptyReservation EXCEPT
                                !.listing = Some(IdPair(Some(1), None))])]),
      Request("object", [EmptyBody EXCEPT !.event = Some("reservation.updated"),
                            !.account = Some("nobody"),
                            !.reservation = Some([EmptyReservation EXCEPT
                                !.listingId = Some(1)])]),
      Request("object", [EmptyBody EXCEPT !.type = Some("reservation.cancelled"),
                            !.accountId = Some("acct1"),
                            !.reservation = Some([EmptyReservation EXCEPT
                                !.listing_id = Some(2)])]) }

----------------------------------------------------------------------------
(* The queue and its callers: the process starts, webhooks come in while the
   Listing table holds what earlier syncs have left. *)

InitJobs ==
    /\ clock = 0
    /\ ticks = 0
    /\ hosts = SyncHosts
    /\ listings \in InitTables
    /\ served = 0
    /\ proc = [p \in Procs |-> IdleProc]
    /\ queue = <<>>
    /\ repeatable = {}
    /\ boot = [starts |-> 0, registered |-> 0]
    /\ hook = None
    /\ calendarDays = <<>>
    /\ work = NoWork

NextJobs ==
    \/ ProcessStart
    \/ \E req \in WebhookRequests : GuestyWebhook(req)

SpecJobs == InitJobs /\ [][NextJobs]_vars

----------------------------------------------------------------------------
(* Claims about the token manager, checked under SpecToken. *)

\* The step of p1 that runs guestyToken.ts lines 15-56 on an existing host.
LoadStep == proc["p1"].pc = "token" /\ proc'["p1"].pc # "token"
            /\ proc["p1"].hostId \in DOMAIN hosts

\* The stored expiry lies more than five minutes after now.
FreshStored(h) ==
    /\ hosts[h].guestyAccessToken \notin {None, Some("")}
    /\ hosts[h].guestyExpiresAt # None
    /\ hosts[h].guestyExpiresAt[1] > clock + 300000

\* C4 as stated: a fresh stored token is returned without a refresh grant,
\* and every other stored state makes the call issue a refresh grant.
C4_AsStated ==
    [][LoadStep =>
        LET h == proc["p1"].hostId IN
        IF FreshStored(h)
        THEN /\ proc'["p1"].pc = "done"
             /\ proc'["p1"].token = hosts[h].guestyAccessToken
             /\ proc'["p1"].grants = 0
        ELSE /\ proc'["p1"].pc = "tokenPost"
             /\ proc'["p1"].grants = 1]_vars

\* C4, amended: getValidAccessToken returns the stored access token without a
\* refresh grant and without a store write when a token is stored and its
\* expiry is more than 5 minutes after now.  When the remaining lifetime is
\* 5 minutes or less, or the token or the expiry is absent, it issues one
\* refresh grant if a refresh token is stored, and otherwise fails with
\* MissingRefreshToken without issuing a grant.
C4_TokenBuffer ==
    [][LoadStep =>
        LET h == proc["p1"].hostId IN
        IF FreshStored(h)
        THEN /\ proc'["p1"].pc = "done"
             /\ proc'["p1"].token = hosts[h].guestyAccessToken
             /\ proc'["p1"].grants = 0
             /\ hosts' = hosts
        ELSE IF hosts[h].guestyRefreshToken \notin {None, Some("")}
        THEN /\ proc'["p1"].pc = "tokenPost"
             /\ proc'["p1"].grants = 1
        ELSE /\ proc'["p1"].pc = "failed"
             /\ proc'["p1"].err = "MissingRefreshToken"
             /\ proc'["p1"].grants = 0]_vars

\* A refresh grant posted for a token with 4 minutes 59 seconds left.
C4_Witness ==
    /\ proc["p1"].pc = "tokenPost"
    /\ proc["p1"].grants = 1
    /\ proc["p1"].host # None
    /\ proc["p1"].host[1].guestyExpiresAt = Some(clock + 299000)
    /\ hosts[proc["p1"].hostId] = proc["p1"].host[1]

\* The step of p1 that writes a refreshed token and returns it.
RefreshedStep == proc["p1"].pc = "tokenWrite" /\ proc'["p1"].pc = "done"

C14_AsStated ==
    \A h \in DOMAIN hosts :
        hosts[h].guestyAccessToken # None => hosts[h].guestyExpiresAt # None

\* The step in which a getValidAccessToken call of p1 fails.
TokenFailStep ==
    /\ proc["p1"].op = "getToken"
    /\ proc["p1"].pc \in {"token", "tokenPost", "tokenWrite"}
    /\ proc'["p1"].pc = "failed"

\* getValidAccessToken finds nothing to return as it stands: no token, no
\* expiry, or five minutes or less of lifetime left.
StaleStored(h) ==
    \/ hosts[h].guestyAccessToken \in {None, Some("")}
    \/ hosts[h].guestyExpiresAt = None
    \/ hosts[h].guestyExpiresAt[1] - clock <= 300000

\* C18: every failing outcome of getValidAccessToken leaves the credential
\* store unchanged and happens before any store write of the call.  A call
\* for an unknown host fails with NotFound, a call that finds a stale or
\* absent token and no refresh token fails with MissingRefreshToken, both
\* without a grant being posted; a rejected grant and an answer without access
\* token fail the call with VendorAuthError.  No call fails in another way.
C18_FailuresLeaveRecord ==
    [][ /\ TokenFailStep =>
            /\ hosts' = hosts
            /\ proc'["p1"].writes = 0
            /\ proc'["p1"].token = None
            /\ proc'["p1"].err \in {"NotFound", "MissingRefreshToken", "VendorAuthError"}
            /\ proc'["p1"].err \in {"NotFound", "MissingRefreshToken"} =>
                  proc'["p1"].grants = 0
        /\ (proc["p1"].op = "getToken" /\ proc["p1"].pc = "token"
              /\ proc'["p1"].pc # "token") =>
            LET h == proc["p1"].hostId IN
            /\ h \notin DOMAIN hosts =>
                  proc'["p1"].pc = "failed" /\ proc'["p1"].err = "NotFound"
            /\ ( /\ h \in DOMAIN hosts
                 /\ StaleStored(h)
                 /\ hosts[h].guestyRefreshToken \in {None, Some("")} ) =>
                  proc'["p1"].pc = "failed" /\ proc'["p1"].err = "MissingRefreshToken"
        /\ (proc["p1"].op = "getToken" /\ proc["p1"].pc = "tokenPost"
              /\ proc'["p1"].pc # "tokenPost") =>
            /\ proc'["p1"].resp # None
            /\ ( \/ ~proc'["p1"].resp[1].ok
                 \/ proc'["p1"].resp[1].access_token \in {None, Some("")} )
               <=> ( proc'["p1"].pc = "failed" /\ proc'["p1"].err = "VendorAuthError" )
      ]_vars

\* A refresh grant for a host with a stored token has been rejected: the
\* call has failed and the record is the one the call loaded.
C18_Witness ==
    /\ proc["p1"].op = "getToken"
    /\ proc["p1"].pc = "failed"
    /\ proc["p1"].err = "VendorAuthError"
    /\ proc["p1"].grants = 1
    /\ proc["p1"].resp # None
    /\ ~proc["p1"].resp[1].ok
    /\ hosts[proc["p1"].hostId].guestyAccessToken # None
    /\ hosts[proc["p1"].hostId] = proc["p1"].host[1]

\* A step of the getValidAccessToken call of p1.
TokenCallStep ==
    /\ proc["p1"].op = "getToken"
    /\ proc'["p1"].op = "getToken"
    /\ proc'["p1"] # proc["p1"]
    /\ proc["p1"].pc \in {"token", "tokenPost", "tokenWrite"}

\* C24: every call of getValidAccessToken performs at most one write to the
\* credential store: none when it returns the stored token or fails, exactly
\* one when it refreshes successfully, and that write changes the record of
\* the host the call was made for and no other.
C24_OneWritePerCall ==
    /\ [](proc["p1"].op = "getToken" =>
             /\ proc["p1"].writes <= 1
             /\ proc["p1"].pc = "failed" => proc["p1"].writes = 0
             /\ proc["p1"].pc = "done" => proc["p1"].writes = proc["p1"].grants
             /\ proc["p1"].pc \in {"token", "tokenPost", "tokenWrite"} =>
                   proc["p1"].writes = 0)
    /\ [][ TokenCallStep =>
            LET h == proc["p1"].hostId IN
            /\ proc["p1"].pc # "tokenWrite" => hosts' = hosts
            /\ (proc["p1"].pc = "token" /\ proc'["p1"].pc = "done") =>
                  /\ proc'["p1"].token = hosts[h].guestyAccessToken
                  /\ proc'["p1"].grants = 0
            /\ proc["p1"].pc = "tokenWrite" =>
                  /\ proc'["p1"].pc = "done"
                  /\ proc'["p1"].writes = 1
                  /\ hosts'[h] = ApplyUpdate(hosts[h], proc["p1"].data[1])
                  /\ \A g \in DOMAIN hosts : g # h => hosts'[g] = hosts[g] ]_vars

\* A call has refreshed the token of one host with a single write while the
\* other host holds credentials of its own, which are as they were.
C24_Witness ==
    /\ proc["p1"].op = "getToken"
    /\ proc["p1"].pc = "done"
    /\ proc["p1"].grants = 1
    /\ proc["p1"].writes = 1
    /\ proc["p1"].hostId = 1
    /\ hosts[1].guestyAccessToken = proc["p1"].token
    /\ hosts[2].guestyAccessToken = Some("A3")
    /\ hosts[1].guestyAccessToken # hosts[2].guestyAccessToken

----------------------------------------------------------------------------
(* Claims about concurrent token calls, checked under SpecTokenRace. *)

\* The step in which the call of p writes the credential record.
TokenWriteStep(p) ==
    /\ proc[p].pc = "tokenWrite"
    /\ proc'[p].pc # "tokenWrite"

\* The access token, refresh token and expiry of a record or of an update.
Credentials(r) ==
    << r.guestyAccessToken, r.guestyRefreshToken, r.guestyExpiresAt >>

\* Both calls have refreshed the token of host h and returned.
BothRefreshed(h) ==
    \A p \in Procs : /\ proc[p].op = "getToken"
                      /\ proc[p].hostId = h
                      /\ proc[p].pc = "done"
                      /\ proc[p].grants = 1

\* C23: two concurrent getValidAccessToken calls for the same host with a
\* stale token can both post a refresh grant and both write the record.
\* The record changes only in the write of a call, which sets its access
\* token, refresh token and expiry to those of that call's update; so after
\* both have finished they are those of the write applied last.  Each call
\* returns the access token the vendor issued to it, and the stored access
\* token is non-empty.
C23_LastWriteWins ==
    /\ [][ /\ \A p \in Procs : TokenWriteStep(p) =>
                 LET h == proc[p].hostId IN
                 /\ Credentials(hosts'[h]) = Credentials(proc[p].data[1])
                 /\ hosts'[h].guestyAccessToken = proc[p].resp[1].access_token
                 /\ proc'[p].pc = "done"
                 /\ proc'[p].token = proc[p].resp[1].access_token
                 /\ proc'[p].writes = 1
           /\ hosts' # hosts => \E p \in Procs : TokenWriteStep(p) ]_vars
    /\ [](\A h \in HostIds : BothRefreshed(h) =>
             /\ \A p \in Procs : /\ proc[p].writes = 1
                                  /\ proc[p].token = proc[p].resp[1].access_token
             /\ \E p \in Procs : Credentials(hosts[h]) = Credentials(proc[p].data[1])
             /\ TruthyStr(hosts[h].guestyAccessToken))

\* Both calls have refreshed the token of host 1 with different answers; the
\* record is the one p1 wrote last, with the refresh token p1 had loaded and
\* not the one the vendor sent to p2.
C23_Witness ==
    /\ BothRefreshed(1)
    /\ proc["p1"].token = Some("A3")
    /\ proc["p2"].token = Some("A1")
    /\ proc["p2"].data[1].guestyRefreshToken = Some("R1")
    /\ proc["p1"].writes = 1 /\ proc["p2"].writes = 1
    /\ Credentials(hosts[1]) = Credentials(proc["p1"].data[1])
    /\ hosts[1].guestyAccessToken = Some("A3")
    /\ hosts[1].guestyRefreshToken = Some("R0")

----------------------------------------------------------------------------
(* Claims about the listing synchronizer, checked under Spec. *)

\* The rows of the table with vendor identifier g.
RowsWith(g) == { i \in DOMAIN listings : listings[i].guestyId = g }

\* p1 has finished a second syncListingByGuestyId call in a row with the
\* arguments of the first, and the vendor has sent the same data.
SameCallTwice ==
    /\ proc["p1"].pc = "done"
    /\ proc["p1"].op = "syncOne"
    /\ proc["p1"].prev # None
    /\ proc["p1"].prev[1].pc = "done"
    /\ proc["p1"].prev[1].hostId = proc["p1"].hostId
    /\ proc["p1"].prev[1].guestyListingId = proc["p1"].guestyListingId
    /\ proc["p1"].prev[1].received = proc["p1"].received

SingleUpsertStep ==
    /\ proc["p1"].pc = "upsertWrite"
    /\ proc["p1"].op = "syncOne"
    /\ proc'["p1"].pc = "done"

\* The upsert of a single-listing sync has acted on the row keyed key, and
\* on no other: it has replaced that row's attributes or appended the row.
UpsertedOnly(key) ==
    /\ proc'["p1"].listing # None
    /\ proc'["p1"].listing[1].guestyId = key
    /\ \E i \in DOMAIN listings' :
          /\ listings'[i] = proc'["p1"].listing[1]
          /\ listings'[i].attrs = MappedAttributes(proc["p1"].received[1])
          /\ \A j \in DOMAIN listings' \ {i} :
                j \in DOMAIN listings /\ listings'[j] = listings[j]
          /\ i \in DOMAIN listings => listings[i].guestyId = key
    /\ Len(listings') \in {Len(listings), Len(listings) + 1}

RECURSIVE Flatten(_)
Flatten(pgs) == IF pgs = <<>> THEN <<>> ELSE Head(pgs) \o Flatten(Tail(pgs))

\* The record carries no vendor identifier: _id ?? id is absent or "".
LacksIdentifier(raw) ==
    LET v == IF raw._id # None THEN raw._id ELSE raw.id
    IN  v = None \/ v = Some(0)

\* The records of recs that carry an identifier, in order.
RECURSIVE WithIdentifier(_)
WithIdentifier(recs) ==
    IF recs = <<>> THEN <<>>
    ELSE IF LacksIdentifier(Head(recs)) THEN WithIdentifier(Tail(recs))
    ELSE <<Head(recs)>> \o WithIdentifier(Tail(recs))

\* C7: in syncAllListings a raw record without a vendor identifier is skipped
\* without failing the call: the call fails only on a missing host or a failed
\* vendor request, and a call that returns has made one upsert for each record
\* with an identifier (n - k of the n records received) and returns exactly the
\* upserted listings, in the order the vendor sent them across pages.
C7_SkipsRecordsWithoutId ==
    /\ proc["p1"].op = "syncAll" /\ proc["p1"].pc = "failed" =>
          proc["p1"].err \in {"NotFound", "VendorRequestError"}
    /\ proc["p1"].op = "syncAll" /\ proc["p1"].pc = "done" =>
          LET kept == WithIdentifier(Flatten(proc["p1"].received))
              out  == proc["p1"].syncedListings
          IN  /\ proc["p1"].upserts = Len(kept)
              /\ Len(out) = Len(kept)
              /\ \A j \in DOMAIN out :
                    /\ out[j].guestyId = Coalesce(kept[j]._id, kept[j].id)[1]
                    /\ out[j].attrs = MappedAttributes(kept[j])
                    /\ out[j].id \in DOMAIN listings
                    /\ listings[out[j].id].guestyId = out[j].guestyId

\* A call has returned after a page of two records, the first of them without
\* identifier: one upsert, one listing returned.
C7_Witness ==
    /\ proc["p1"].op = "syncAll"
    /\ proc["p1"].pc = "done"
    /\ proc["p1"].received = << <<RawNoId, RawBare>> >>
    /\ proc["p1"].upserts = 1
    /\ Len(proc["p1"].syncedListings) = 1

\* The step in which an upsert of p1 writes a row it has found.
UpsertHitStep ==
    /\ proc["p1"].pc = "upsertWrite"
    /\ proc["p1"].found
    /\ proc'["p1"].pc # "upsertWrite"

\* C28: no step changes the vendor identifier or the owning host of an
\* existing Listing record, and no record is removed; an upsert that hits an
\* existing record, also one made for another host than the record's,
\* replaces its descriptive attributes by the mapping of the vendor's record
\* and changes nothing else in the table.
C28_KeyAndOwnerKept ==
    [][ /\ \A i \in DOMAIN listings :
             /\ i \in DOMAIN listings'
             /\ listings'[i].id = listings[i].id
             /\ listings'[i].guestyId = listings[i].guestyId
             /\ listings'[i].hostId = listings[i].hostId
        /\ UpsertHitStep =>
             LET u == proc["p1"].upsert[1]
                 i == RowOf(listings, u.where)
             IN  /\ DOMAIN listings' = DOMAIN listings
                 /\ listings'[i].attrs = u.update.attrs
                 /\ u.update.attrs =
                       MappedAttributes(
                         IF proc["p1"].op = "syncAll"
                         THEN proc["p1"].received[Len(proc["p1"].received)][proc["p1"].idx]
                         ELSE proc["p1"].received[Len(proc["p1"].received)])
                 /\ \A j \in DOMAIN listings : j # i => listings'[j] = listings[j]
      ]_vars

\* The record host 2 created for identifier 1 has been synced by a call for
\* host 1: it carries the attributes of the vendor's current record and is
\* still owned by host 2.
C28_Witness ==
    /\ proc["p1"].pc = "done"
    /\ proc["p1"].hostId = 1
    /\ proc["p1"].found
    /\ proc["p1"].upserts >= 1
    /\ Len(listings) >= 1
    /\ listings[1].guestyId = 1
    /\ listings[1].hostId = 2
    /\ listings[1].attrs = MappedAttributes(RawCanonical)
    /\ listings[1].attrs # MappedAttributes(RawHistorical)

\* C17 as the specification states it: the base price of every Listing
\* record is non-negative, whatever the vendor's payloads.
C17_AsStated ==
    \A i \in DOMAIN listings : listings[i].attrs.basePrice >= 0

\* The step in which a vendor request of p1 is answered.
VendorAnswerStep ==
    /\ proc["p1"].pc \in {"listPage", "getListing"}
    /\ proc'["p1"] # proc["p1"]

\* C20: a vendor request that fails ends the call with that error, in
\* syncAllListings without another request for any page and with the rows
\* upserted from the pages before still in the table, in syncOneListing
\* without an upsert.  A call that has failed on page k has requested pages
\* 1..k once each and has received pages 1..k-1.
C20_FetchFailureIsFatal ==
    /\ [][ VendorAnswerStep /\ proc'["p1"].received = proc["p1"].received =>
              /\ proc'["p1"].pc = "failed"
              /\ proc'["p1"].err = "VendorRequestError"
              /\ proc'["p1"].requests = proc["p1"].requests
              /\ proc'["p1"].upserts = proc["p1"].upserts
              /\ listings' = listings ]_vars
    /\ [] ( proc["p1"].pc = "failed" /\ proc["p1"].err = "VendorRequestError" =>
              IF proc["p1"].op = "syncAll"
              THEN LET k == Len(proc["p1"].received) + 1 IN
                   /\ proc["p1"].requests = [i \in 1..k |-> i]
                   /\ \A j \in DOMAIN proc["p1"].syncedListings :
                        LET out == proc["p1"].syncedListings[j] IN
                        /\ out.id \in DOMAIN listings
                        /\ listings[out.id].guestyId = out.guestyId
              ELSE /\ proc["p1"].requests = <<proc["p1"].guestyListingId>>
                   /\ proc["p1"].upserts = 0
                   /\ proc["p1"].listing = None )

\* A syncAllListings call has failed on page 2 after upserting the record of
\* page 1, which is still in the table.
C20_Witness ==
    /\ proc["p1"].op = "syncAll"
    /\ proc["p1"].pc = "failed"
    /\ proc["p1"].err = "VendorRequestError"
    /\ proc["p1"].requests = <<1, 2>>
    /\ Len(proc["p1"].received) = 1
    /\ Len(proc["p1"].syncedListings) = 1
    /\ proc["p1"].syncedListings[1] = listings[Len(listings)]

----------------------------------------------------------------------------
(* Claims about concurrent listing syncs, checked under SpecRace. *)

\* C1: in every reachable state of the Listing table there is at most one
\* record per vendor identifier, whatever syncAllListings and syncOneListing
\* calls run concurrently and however their upserts of one identifier
\* interleave.
C1_OneRecordPerIdentifier ==
    \A i, j \in DOMAIN listings :
        listings[i].guestyId = listings[j].guestyId => i = j

\* Two upserts of the same identifier have raced: both looked the row up
\* before either wrote, one has inserted it and the other has failed on the
\* unique column.
C1_Witness ==
    /\ proc["p1"].pc = "done"
    /\ proc["p1"].upserts = 1
    /\ proc["p2"].pc = "failed"
    /\ proc["p2"].err = "UniqueConstraint"
    /\ proc["p2"].upsert # None
    /\ proc["p2"].upsert[1].where = 1
    /\ Cardinality(RowsWith(1)) = 1

\* The step in which the upsert of worker p is applied to the table.
AppliedStep(p) ==
    /\ proc[p].pc = "upsertWrite"
    /\ proc'[p].upserts = proc[p].upserts + 1

\* The vendor snapshot the upsert under way in worker p carries.
SnapshotAtHand(p) ==
    IF proc[p].op = "syncAll" THEN proc[p].rawListings[proc[p].idx]
    ELSE proc[p].received[Len(proc[p].received)]

\* The vendor snapshots worker p has received for the record upserted under
\* identifier g.
SnapshotsFor(p, g) ==
    IF proc[p].op = "syncAll"
    THEN { Flatten(proc[p].received)[k] : k \in
             { k \in DOMAIN Flatten(proc[p].received) :
                 Flatten(proc[p].received)[k]._id = Some(g)
                 \/ ( Flatten(proc[p].received)[k]._id = None
                      /\ Flatten(proc[p].received)[k].id = Some(g) ) } }
    ELSE IF proc[p].op = "syncOne" /\ proc[p].upsert # None
            /\ proc[p].upsert[1].where = g
    THEN { proc[p].received[k] : k \in DOMAIN proc[p].received }
    ELSE IF proc[p].op = "syncOne" /\ proc[p].listing # None
            /\ proc[p].listing[1].guestyId = g
    THEN { proc[p].received[k] : k \in DOMAIN proc[p].received }
    ELSE {}

\* C12: however sync-listings and sync-single-listing jobs interleave, the
\* table changes only by an upsert being applied, and the upsert leaves the
\* record of its identifier with exactly the mapped attributes of the one
\* snapshot it carries and every other record as it was: the attributes of a
\* record are at any time, and so once all jobs have finished, those of the
\* snapshot whose upsert was applied last, never a mix of two snapshots.
C12_LastSnapshotWins ==
    /\ [][ listings' # listings =>
             \E p \in Procs :
               /\ AppliedStep(p)
               /\ \E i \in DOMAIN listings' :
                    /\ listings'[i].guestyId = proc[p].upsert[1].where
                    /\ listings'[i].attrs = MappedAttributes(SnapshotAtHand(p))
                    /\ \A j \in DOMAIN listings' \ {i} :
                          j \in DOMAIN listings /\ listings'[j] = listings[j] ]_vars
    /\ [] ( (\A p \in Procs : proc[p].pc \in {"idle", "done", "failed"}) =>
              \A i \in DOMAIN listings :
                \E p \in Procs : \E snap \in SnapshotsFor(p, listings[i].guestyId) :
                    listings[i].attrs = MappedAttributes(snap) )

\* Two jobs have upserted different snapshots of identifier 1; the record
\* carries the attributes of the one applied last and nothing of the other.
C12_Witness ==
    /\ proc["p1"].pc = "done" /\ proc["p1"].upserts = 1
    /\ proc["p2"].pc = "done" /\ proc["p2"].upserts = 1
    /\ proc["p1"].op = "syncAll" /\ proc["p1"].received = << <<RawCanonical>> >>
    /\ proc["p2"].op = "syncOne" /\ proc["p2"].received = <<RawHistorical>>
    /\ Len(listings) = 1
    /\ listings[1].guestyId = 1
    /\ listings[1].attrs = MappedAttributes(RawHistorical)
    /\ listings[1].attrs.description = None

----------------------------------------------------------------------------
(* Claims about paging, checked under SpecPages. *)

\* The sizes of the pages received so far.
PageSizes == [ i \in DOMAIN proc["p1"].received |-> Len(proc["p1"].received[i]) ]

RECURSIVE Sum(_)
Sum(ns) == IF ns = <<>> THEN 0 ELSE Head(ns) + Sum(Tail(ns))

\* C6: when the vendor reports no page count, syncAllListings with limit L
\* requests pages 1, 2, ... and stops right after the first page holding fewer
\* than L records: every page before the last one received was full, a call
\* that has returned received a short last page, made one request per page and
\* returns one listing per record, all of them distinct rows; page sizes
\* [50, 50, 13] give 3 requests and 113 listings.
C6_StopsAfterShortPage ==
    proc["p1"].op = "syncAll" =>
      LET n == Len(PageSizes)
          L == DEFAULT_PAGE_SIZE
      IN  /\ \A i \in 1..(n - 1) : PageSizes[i] = L
          /\ proc["p1"].pc = "listPage" =>
                /\ proc["p1"].requests = [i \in 1..(n + 1) |-> i]
                /\ \A i \in 1..n : PageSizes[i] = L
          /\ proc["p1"].pc = "done" =>
                /\ n >= 1
                /\ PageSizes[n] < L
                /\ proc["p1"].requests = [i \in 1..n |-> i]
                /\ Len(proc["p1"].syncedListings) = Sum(PageSizes)
                /\ Len(listings) = Sum(PageSizes)
                /\ \A i \in DOMAIN listings : proc["p1"].syncedListings[i] = listings[i]
                /\ PageSizes = <<50, 50, 13>> =>
                      /\ Len(proc["p1"].requests) = 3
                      /\ Len(proc["p1"].syncedListings) = 113

\* The call has returned after pages of 50, 50 and 13 records.
C6_Witness ==
    /\ proc["p1"].op = "syncAll"
    /\ proc["p1"].pc = "done"
    /\ PageSizes = <<50, 50, 13>>
    /\ proc["p1"].requests = <<1, 2, 3>>
    /\ Len(proc["p1"].syncedListings) = 113
    /\ Len(listings) = 113

----------------------------------------------------------------------------
(* Claims about paging with a page count, checked under SpecPageCount. *)

\* A step of the call that ends its work on a page: the page was empty, or
\* its last record has been dealt with.
PageFinishedStep ==
    /\ proc["p1"].op = "syncAll"
    /\ proc["p1"].pc \in {"listPage", "upsertWrite"}
    /\ proc'["p1"].pc \in {"listPage", "done"}

\* The call stops at this step, with no further request.
StopsHere ==
    /\ proc'["p1"].pc = "done"
    /\ proc'["p1"].requests = proc["p1"].requests

\* The call asks for the page after page n at this step.
AsksForNext(n) ==
    /\ proc'["p1"].pc = "listPage"
    /\ proc'["p1"].requests = Append(proc["p1"].requests, n + 1)

\* The requests of the call so far are for pages 1, 2, ... in order.
RequestsFromPageOne ==
    proc["p1"].op = "syncAll" /\ proc["p1"].pc # "token" =>
        /\ Len(proc["p1"].requests) >= 1
        /\ proc["p1"].requests = [i \in 1..Len(proc["p1"].requests) |-> i]

\* C21 as stated: syncAllListings starts at page 1 and stops without
\* upserting as soon as a page is empty; whatever page count P the vendor
\* reports, it requests the next page after every non-empty page numbered
\* below P and stops after the page numbered P or higher.
C21_AsStated ==
    [][ PageFinishedStep =>
          LET n    == Len(proc'["p1"].received)
              size == Len(proc'["p1"].rawListings)
              P    == proc'["p1"].pages
          IN  /\ size = 0 => StopsHere /\ listings' = listings
              /\ size > 0 /\ P # None =>
                    IF n < P[1] THEN AsksForNext(n) ELSE StopsHere ]_vars

\* C21: syncAllListings starts at page 1 and stops without upserting as soon
\* as a page is empty; when the vendor reports a page count P other than 0
\* it requests the next page after every non-empty page numbered below P,
\* also when that page holds fewer records than the limit, and stops after
\* the page numbered P or higher, so that P non-empty pages cost exactly P
\* requests; a reported count of 0 counts as none: the next page is
\* requested exactly when the page was full.
C21_PageCount ==
    /\ [](RequestsFromPageOne)
    /\ [][ PageFinishedStep =>
            LET n    == Len(proc'["p1"].received)
                size == Len(proc'["p1"].rawListings)
                P    == proc'["p1"].pages
            IN  /\ size = 0 => StopsHere /\ listings' = listings
                /\ size > 0 /\ P # None /\ P[1] # 0 =>
                      /\ IF n < P[1] THEN AsksForNext(n) ELSE StopsHere
                      /\ StopsHere /\ (\A i \in 1..n : proc'["p1"].received[i] # <<>>)
                           /\ n = P[1] => Len(proc'["p1"].requests) = P[1]
                /\ size > 0 /\ (P = None \/ P = Some(0)) =>
                      IF size = DEFAULT_PAGE_SIZE THEN AsksForNext(n)
                      ELSE StopsHere ]_vars

\* The call has returned after two requests: a short first page and a
\* second page, both reported as pages of 2.
C21_Witness ==
    /\ proc["p1"].op = "syncAll"
    /\ proc["p1"].pc = "done"
    /\ proc["p1"].requests = <<1, 2>>
    /\ Len(proc["p1"].received) = 2
    /\ Len(proc["p1"].received[1]) = 2
    /\ Len(proc["p1"].received[2]) = 2
    /\ proc["p1"].pages = Some(2)
    /\ Len(listings) = 4

\* The page just received ends the call: it is empty, short without a page
\* count, or at or past the reported page count.
LastPageEnds(r) ==
    LET n    == Len(r.received)
        size == Len(r.rawListings)
        reported == r.pages # None /\ r.pages[1] # 0
    IN  /\ n >= 1
        /\ \/ size = 0
           \/ ~reported /\ size < DEFAULT_PAGE_SIZE
           \/ reported /\ n >= r.pages[1]

\* C22: syncAllListings has no cap on pages: after every page of exactly
\* limit records that comes without a page count the call requests the next
\* page, whatever the page number, so that it is still running after any
\* number of such pages; a call that has returned has received an empty
\* page, a short page without page count, or a page at or past the reported
\* page count.
C22_NoPageCap ==
    /\ [](proc["p1"].op = "syncAll" /\ proc["p1"].pc = "done"
            => LastPageEnds(proc["p1"]))
    /\ [][ /\ PageFinishedStep
           /\ Len(proc'["p1"].rawListings) = DEFAULT_PAGE_SIZE
           /\ proc'["p1"].pages = None
           => /\ AsksForNext(Len(proc'["p1"].received))
              /\ proc'["p1"].page = Len(proc'["p1"].received) + 1 ]_vars

\* After as many full pages without page count as the vendor has been let
\* send, the call is waiting for the answer to yet another request.
C22_Witness ==
    /\ proc["p1"].op = "syncAll"
    /\ proc["p1"].pc = "listPage"
    /\ Len(proc["p1"].received) = MaxBulkPages
    /\ \A i \in 1..MaxBulkPages : Len(proc["p1"].received[i]) = DEFAULT_PAGE_SIZE
    /\ proc["p1"].pages = None
    /\ proc["p1"].requests = [i \in 1..(MaxBulkPages + 1) |-> i]
    /\ Len(listings) = MaxBulkPages * DEFAULT_PAGE_SIZE

----------------------------------------------------------------------------
(* Claims about the webhook handler and the queue, checked under SpecJobs. *)

\* The last webhook carried a JSON object (or text that is no JSON at all).
HandledBody == ParseBody(hook[1].req)[1]

ObjectEvent == hook # None /\ ParseBody(hook[1].req) # None

\* The account identifier of the body is absent (or empty) or is the account
\* identifier of no host.
Unresolvable(body) ==
    \/ PayloadAccountId(body) = None
    \/ \A h \in DOMAIN hosts : hosts[h].guestyAccountId # PayloadAccountId(body)

ResolvedHosts(body) ==
    { h \in DOMAIN hosts : /\ PayloadAccountId(body) # None
                           /\ hosts[h].guestyAccountId = PayloadAccountId(body) }

\* The listing identifier the body carries, if it carries a non-empty one.
ListingIdOf(body) ==
    IF extractGuestyListingId(body) \in {None, Some(0)} THEN {}
    ELSE { extractGuestyListingId(body)[1] }

\* The local Listing rows the listing identifier of the body matches.
MatchedListings(body) ==
    { r \in DOMAIN listings : listings[r].guestyId \in ListingIdOf(body) }

\* The jobs the kind of the last event and what it resolves to call for.
CalledFor ==
    IF ~ObjectEvent THEN {}
    ELSE IF EventType(HandledBody) \in {"listing.created", "listing.updated"}
    THEN { [ name |-> "sync-single-listing",
             data |-> [hostId |-> h, guestyListingId |-> g] ] :
             h \in ResolvedHosts(HandledBody), g \in ListingIdOf(HandledBody) }
    ELSE IF EventType(HandledBody) \in
              {"reservation.created", "reservation.updated", "reservation.cancelled"}
    THEN { [ name |-> "sync-calendar", data |-> [listingId |-> listings[r].id] ] :
             r \in MatchedListings(HandledBody) }
    ELSE {}

\* C26: each inbound webhook event enqueues at most one job, and the queue
\* grows by what the handler added only.  A listing-created/updated event
\* with a resolvable host and a listing identifier enqueues one
\* sync-single-listing job with that host and identifier; a reservation event
\* whose listing identifier matches a local Listing enqueues one sync-calendar
\* job for that listing (in both cases unless a lookup or the add itself fails,
\* which enqueues nothing); an event of any other type, a body that is no
\* object, or an event missing or not resolving what its kind needs, enqueues
\* nothing.
C26_AtMostOneJob ==
    /\ [](hook # None =>
             /\ Len(hook[1].added) <= 1
             /\ Cardinality(CalledFor) <= 1
             /\ \A i \in DOMAIN hook[1].added : hook[1].added[i] \in CalledFor
             /\ (CalledFor # {} /\ ~hook[1].caught /\ ~hook[1].escaped)
                   => Len(hook[1].added) = 1)
    /\ [][ (queue' # queue \/ hook' # hook) =>
             hook' # None /\ queue' = queue \o hook'[1].added ]_vars

\* A listing event and then a reservation event have each put their job in
\* the queue.
C26_Witness ==
    /\ hook # None
    /\ ObjectEvent
    /\ EventType(HandledBody) \in RESERVATION_EVENTS
    /\ Len(hook[1].added) = 1
    /\ hook[1].added[1].name = "sync-calendar"
    /\ Len(queue) = 2
    /\ queue[1].name = "sync-single-listing"
    /\ queue[1].data = [hostId |-> 1, guestyListingId |-> 1]
    /\ queue[2] = hook[1].added[1]
    /\ \E r \in DOMAIN listings : listings[r].id = queue[2].data.listingId

\* C9 as the specification states it: the handler answers every event with
\* success, and no failure escapes it.
C9_AsStated ==
    hook # None => hook[1].status = 200 /\ ~hook[1].escaped

\* The recurring schedules of kind sync-all-hosts the queue holds.
RecurringSchedules == { k \in repeatable : k.name = "sync-all-hosts" }

\* C10: the queue never holds more than one recurring schedule of kind
\* sync-all-hosts, and once a process start has registered it the queue holds
\* exactly one, with job identity sync-all-hosts-recurring.
C10_OneRecurringSchedule ==
    /\ Cardinality(RecurringSchedules) <= 1
    /\ \A k \in RecurringSchedules : k.jobId = "sync-all-hosts-recurring"
    /\ boot.registered >= 1 => Cardinality(RecurringSchedules) = 1

\* The recurring job has been registered by two process starts.
C10_Witness ==
    /\ boot.registered >= 2
    /\ Cardinality(RecurringSchedules) = 1

----------------------------------------------------------------------------
(* Claims about the calendar synchronizer, checked under SpecCalendar. *)

\* The step in which syncCalendar has loaded, or failed to load, its listing.
CalendarLoadStep ==
    proc["p1"].pc = "calLoad" /\ proc'["p1"].pc # "calLoad"

\* The call of p1 has, after the step, asked for no token, sent the vendor
\* nothing and written no CalendarDay.
NothingDone ==
    /\ proc'["p1"].tokenCalls = 0
    /\ proc'["p1"].token = None
    /\ proc'["p1"].requests = <<>>
    /\ proc'["p1"].dayWrites = 0
    /\ calendarDays' = calendarDays
    /\ hosts' = hosts

\* C19: syncCalendar(listingId) fails with NotFound when no Listing has that
\* id and with NotLinked when the Listing has no vendor identifier, in both
\* cases without asking for an access token, without a vendor request and
\* without writing a CalendarDay; for a linked listing it goes on to ask for
\* a token.
C19_CalendarPreconditions ==
    /\ [][ CalendarLoadStep =>
             LET l == proc["p1"].listingId IN
             IF \A i \in DOMAIN listings : listings[i].id # l
             THEN /\ proc'["p1"].pc = "failed"
                  /\ proc'["p1"].err = "NotFound"
                  /\ NothingDone
             ELSE IF \E i \in DOMAIN listings :
                        listings[i].id = l /\ listings[i].guestyId = 0
             THEN /\ proc'["p1"].pc = "failed"
                  /\ proc'["p1"].err = "NotLinked"
                  /\ NothingDone
             ELSE /\ proc'["p1"].pc = "token"
                  /\ proc'["p1"].tokenCalls = 1 ]_vars
    /\ [] ( ( /\ proc["p1"].op = "syncCalendar"
              /\ proc["p1"].pc = "failed"
              /\ proc["p1"].err \in {"NotFound", "NotLinked"} ) =>
              /\ proc["p1"].tokenCalls = 0
              /\ proc["p1"].requests = <<>>
              /\ proc["p1"].dayWrites = 0 )

\* syncCalendar has failed on listing 2, whose vendor identifier is empty,
\* after an earlier call has written a day of listing 1.
C19_Witness ==
    /\ proc["p1"].op = "syncCalendar"
    /\ proc["p1"].pc = "failed"
    /\ proc["p1"].err = "NotLinked"
    /\ proc["p1"].listingId = 2
    /\ proc["p1"].tokenCalls = 0
    /\ proc["p1"].requests = <<>>
    /\ Len(calendarDays) >= 1
    /\ calendarDays[Len(calendarDays)].date >= 24

\* The step in which the upsert of a vendor day is applied to the table.
DayAppliedStep ==
    /\ proc["p1"].pc = "dayWrite"
    /\ proc'["p1"].dayWrites = proc["p1"].dayWrites + 1

\* The first present one of the vendor's four price fields, else the base
\* price of the listing.
FirstPresentPrice(raw, listing) ==
    IF raw.price # None THEN raw.price[1]
    ELSE IF raw.nightlyPrice # None THEN raw.nightlyPrice[1]
    ELSE IF raw.basePrice # None THEN raw.basePrice[1]
    ELSE IF raw.defaultDailyPrice # None THEN raw.defaultDailyPrice[1]
    ELSE listing.attrs.basePrice

Today == (clock \div 86400000) * 24

\* The date lies in the window from the current UTC day to six calendar
\* months later.
InWindow(d) == d >= Today /\ d <= startOfDayUtc(addMonths(Today, 6))

\* C16 as the specification states it: syncCalendar creates and updates only
\* CalendarDay records dated within the window from the current UTC day to
\* six calendar months later, and never creates, modifies or deletes a record
\* dated before the current UTC day, whatever days the vendor sends.
C16_AsStated ==
    [][ /\ \A i \in DOMAIN calendarDays' :
             (i \notin DOMAIN calendarDays \/ calendarDays'[i] # calendarDays[i])
                => InWindow(calendarDays'[i].date)
        /\ \A i \in DOMAIN calendarDays :
             calendarDays[i].date < Today =>
                i \in DOMAIN calendarDays' /\ calendarDays'[i] = calendarDays[i]
      ]_vars

\* C27 as the specification states it: in every reachable state the
\* minimum-stay nights of every CalendarDay record is at least 1.
C27_AsStated ==
    \A i \in DOMAIN calendarDays : calendarDays[i].minStay >= 1

----------------------------------------------------------------------------
(* Claims about concurrent calendar syncs, checked under SpecCalendarRace. *)

\* C15: in every reachable state there is at most one CalendarDay record per
\* listing and UTC day, however syncCalendar calls on the same listing
\* interleave and whatever timestamps of one UTC day the vendor sends.
C15_OneDayPerListingAndDate ==
    \A i, j \in DOMAIN calendarDays :
        ( /\ calendarDays[i].listingId = calendarDays[j].listingId
          /\ calendarDays[i].date \div 24 = calendarDays[j].date \div 24 ) => i = j

\* Two calls have been sent two timestamps of the same UTC day and have both
\* looked the row up before either wrote: one has inserted it, the other has
\* failed on the unique pair of columns.
C15_Witness ==
    /\ proc["p1"].pc = "done" /\ proc["p1"].dayWrites = 1
    /\ proc["p1"].received = << <<DayBare>> >>
    /\ proc["p2"].pc = "failed" /\ proc["p2"].err = "UniqueConstraint"
    /\ proc["p2"].received = << <<DayLate>> >>
    /\ Cardinality({ i \in DOMAIN calendarDays :
                       calendarDays[i].listingId = 1
                       /\ calendarDays[i].date \div 24 = 1 }) = 1

----------------------------------------------------------------------------
(* Claims about the workers of the queue, checked under SpecWorker. *)

\* The jobs the queue knows: waiting, running, failed and completed.
KnownJobs ==
    { queue[k] : k \in DOMAIN queue }
    \cup { work.active[p][1] : p \in { q \in Procs : work.active[q] # None } }
    \cup { work.failed[k] : k \in DOMAIN work.failed }
    \cup { work.completed[k] : k \in DOMAIN work.completed }

\* An attempt of job id has failed, and the job has not completed since.
FailedAttempt(id) ==
    \E j \in KnownJobs :
        /\ j.id = id
        /\ j.attemptsMade >= 1
        /\ \A k \in DOMAIN work.completed : work.completed[k].id # id

\* Job id is being run again after a failed attempt, or has completed.
RunAgain(id) ==
    \/ \E p \in Procs :
          /\ work.active[p] # None
          /\ work.active[p][1].id = id
          /\ work.active[p][1].attemptsMade >= 1
    \/ \E k \in DOMAIN work.completed : work.completed[k].id = id

\* C13 as the specification states it: a sync job of which an attempt has
\* failed is eventually run again by the queue.
C13_AsStated ==
    \A id \in 1..MaxJobs : FailedAttempt(id) ~> RunAgain(id)

----------------------------------------------------------------------------
(* Claims about the recurring sync, checked under SpecFanOut. *)

\* A step of the sync-all-hosts handler run by p1.
FanOutStep ==
    /\ proc["p1"].op = "syncAllHosts"
    /\ proc'["p1"].op = "syncAllHosts"
    /\ proc'["p1"] # proc["p1"]

\* The hosts that have both a vendor account identifier and a refresh token
\* stored.
HasBoth == { h \in DOMAIN hosts : /\ hosts[h].guestyAccountId # None
                                  /\ hosts[h].guestyRefreshToken # None }

\* The jobs of the sequence jobs that are sync-listings jobs for host h.
JobsFor(jobs, h) ==
    { k \in DOMAIN jobs : jobs[k].name = "sync-listings" /\ jobs[k].data = [hostId |-> h] }

\* C25: an execution of the sync-all-hosts handler that has returned has
\* enqueued exactly one sync-listings job for each host that has both a
\* vendor account identifier and a refresh token stored, and no job for a
\* host lacking either; every job the handler adds goes to the queue as it
\* is added, and the handler upserts no listing.
C25_FanOut ==
    /\ [](proc["p1"].op = "syncAllHosts" =>
             /\ proc["p1"].upserts = 0
             /\ \A k \in DOMAIN proc["p1"].fanAdded :
                   proc["p1"].fanAdded[k].name = "sync-listings"
             /\ \A h \in DOMAIN hosts \ HasBoth :
                   JobsFor(proc["p1"].fanAdded, h) = {}
             /\ \A h \in HasBoth : Cardinality(JobsFor(proc["p1"].fanAdded, h)) <= 1
             /\ proc["p1"].pc = "done" =>
                   /\ \A h \in HasBoth :
                         Cardinality(JobsFor(proc["p1"].fanAdded, h)) = 1
                   /\ Len(proc["p1"].fanAdded) = Cardinality(HasBoth))
    /\ [][ FanOutStep =>
            /\ listings' = listings
            /\ \/ /\ queue' = queue
                  /\ proc'["p1"].fanAdded = proc["p1"].fanAdded
               \/ /\ Len(proc'["p1"].fanAdded) = Len(proc["p1"].fanAdded) + 1
                  /\ queue' = Append(queue,
                        proc'["p1"].fanAdded[Len(proc'["p1"].fanAdded)]) ]_vars

\* An execution has returned with two connected hosts: one job for each is
\* in the queue.
C25_Witness ==
    /\ proc["p1"].op = "syncAllHosts"
    /\ proc["p1"].pc = "done"
    /\ HasBoth = {1, 2}
    /\ Len(proc["p1"].fanAdded) = 2
    /\ Len(queue) = 2
    /\ \A h \in {1, 2} : \E k \in DOMAIN queue :
          queue[k].name = "sync-listings" /\ queue[k].data = [hostId |-> h]
    /\ listings = <<>>

====
